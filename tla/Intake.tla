------------------------------- MODULE Intake -------------------------------
(***************************************************************************)
(* What becomes of every datagram that reaches the receiver, and what the  *)
(* diagnostics are told of it (pc-server/pc_server/receiver.py,            *)
(* _process_data with the counters, the rejection caches and the           *)
(* callbacks).  Which client owns the pad, and the ACK, are Receiver's.     *)
(*                                                                         *)
(* The UDP and the USB thread run the same code.  _clients_lock is held    *)
(* for one step at a time; the clock is read before the lock is taken.     *)
(*                                                                         *)
(* A rejection cache is an OrderedDict from a key to the time it was last  *)
(* seen: here a sequence of such pairs, oldest insertion first.            *)
(***************************************************************************)
EXTENDS Naturals, Sequences, FiniteSets, SequencesExt, FiniteSetsExt

CONSTANTS
  None,          \* Python's None
  Hosts,         \* the addresses datagrams come from over Wi-Fi
  WifiKinds, CableKinds, \* how datagrams fare: see Kinds
  MaxEntries,    \* REJECTION_CACHE_MAX_ENTRIES, 128
  TTL,           \* REJECTION_CACHE_TTL_S, 10 s
  MaxLag,        \* the longest time between reading the clock and the lock
  MaxTime, MaxDatagrams, MaxErrors \* bounds of the model

ASSUME IntakeAssumption ==
  /\ WifiKinds \subseteq {"malformed", "foreign", "unpaired", "odd", "good"}
  /\ CableKinds \subseteq {"malformed", "odd", "good"}
  /\ MaxEntries \in Nat \ {0} /\ TTL \in Nat \ {0} /\ MaxLag \in Nat /\ MaxLag < TTL
  /\ MaxTime \in Nat /\ MaxDatagrams \in Nat /\ MaxErrors \in Nat
  /\ None \notin Nat

VARIABLES
  now,        \* time.monotonic()
  job,        \* what each thread has in hand
  received, valid, rejected, pairing, callbackErrors,  \* the counters
  cache,      \* _rejected_hosts, _rejected_pairings and _rejection_logs
  heard,      \* history: when each key was last remembered, by its own clock
  logged      \* whether the last decision was to log

counters == <<received, valid, rejected, pairing, callbackErrors>>
caches   == <<cache, heard, logged>>
vars     == <<now, job, counters, caches>>

Threads == {"udp", "usb"}
Caches  == {"hosts", "pairings", "logs"}

\* How a datagram fares: it is malformed, its host is not allowed, its session is
\* not the paired one, it is a gap or a repetition, or there is nothing to say.
Kinds == {"malformed", "foreign", "unpaired", "odd", "good"}
Origins(t) == IF t = "udp" THEN Hosts ELSE {"usb"}
Keys == (WifiKinds \X Hosts) \cup (CableKinds \X {"usb"})

Idle == [step |-> "idle"]

Init ==
  /\ now = 0
  /\ job = [t \in Threads |-> Idle]
  /\ received = 0 /\ valid = 0 /\ rejected = 0 /\ pairing = 0 /\ callbackErrors = 0
  /\ cache = [c \in Caches |-> <<>>]
  /\ heard = [k \in Keys |-> None]
  /\ logged = FALSE

-----------------------------------------------------------------------------
(* The caches.                                                             *)

\* Fault: nothing expires.
ExpireNothing(entries, at) == entries

\* _expire_cache_locked: from the front, until an entry that is young enough.
Expire(entries, at) ==
  LET young == {i \in DOMAIN entries : entries[i].seenAt + TTL > at}
  IN  IF young = {} THEN <<>> ELSE SubSeq(entries, Min(young), Len(entries))

Holds(entries, key) == \E i \in DOMAIN entries : entries[i].key = key

\* The entries but the one of the key.
Without(entries, key) ==
  IF Holds(entries, key)
  THEN RemoveAt(entries, CHOOSE i \in DOMAIN entries : entries[i].key = key) ELSE entries

\* Fault: the bound takes out the newest entry.
TrimNewest(entries) ==
  IF Len(entries) > MaxEntries THEN SubSeq(entries, 1, MaxEntries) ELSE entries

\* The oldest insertions go when there are too many.
Trim(entries) ==
  IF Len(entries) > MaxEntries
  THEN SubSeq(entries, Len(entries) - MaxEntries + 1, Len(entries)) ELSE entries

\* _remember_cache_entry_locked: the key is moved to the end; whether to log it is
\* whether it was not there.
Remember(c, key, at) ==
  LET fresh == Expire(cache[c], at)
      known == Holds(fresh, key)
      added == Append(Without(fresh, key), [key |-> key, seenAt |-> at])
  IN  /\ cache' = [cache EXCEPT ![c] = Trim(added)]
      /\ heard' = [heard EXCEPT ![key] = at]
      /\ logged' = ~known

-----------------------------------------------------------------------------
(* A thread takes a datagram through _process_data.                        *)

To(t, step) == job' = [job EXCEPT ![t].step = step]

\* Up to n callbacks are called; one that raises is counted, and the thread goes on.
CallbacksReturn(n) ==
  \E failures \in 0..n : /\ callbackErrors + failures <= MaxErrors
                         /\ callbackErrors' = callbackErrors + failures

Arrive(t) ==
  /\ job[t].step = "idle"
  /\ received + Cardinality({u \in Threads : job[u].step = "stamped"}) < MaxDatagrams
  /\ \E kind \in IF t = "udp" THEN WifiKinds ELSE CableKinds, origin \in Origins(t) :
       job' = [job EXCEPT ![t] = [step |-> "stamped", key |-> <<kind, origin>>, at |-> now]]
  /\ UNCHANGED <<now, counters, caches>>

Count(t) ==
  /\ job[t].step = "stamped"
  /\ received' = received + 1
  /\ To(t, "counted")
  /\ UNCHANGED <<now, valid, rejected, pairing, callbackErrors, caches>>

\* The DATAGRAM_RECEIVED stage is emitted, and the datagram decoded.
Decode(t) ==
  /\ job[t].step = "counted"
  /\ CallbacksReturn(1)
  /\ To(t, CASE job[t].key[1] = "malformed" -> "malformed"
             [] job[t].key[1] = "foreign"   -> "foreign"
             [] OTHER                       -> "decoded")
  /\ UNCHANGED <<now, received, valid, rejected, pairing, caches>>

RejectMalformed(t) ==
  /\ job[t].step = "malformed"
  /\ rejected' = rejected + 1
  /\ To(t, "log")
  /\ UNCHANGED <<now, received, valid, pairing, callbackErrors, caches>>

RejectHost(t) ==
  /\ job[t].step = "foreign"
  /\ rejected' = rejected + 1
  /\ Remember("hosts", job[t].key, job[t].at)
  /\ job' = [job EXCEPT ![t] = Idle]
  /\ UNCHANGED <<now, received, valid, pairing, callbackErrors>>

\* The VALID_PACKET stage is emitted.
Validate(t) ==
  /\ job[t].step = "decoded"
  /\ CallbacksReturn(1)
  /\ To(t, CASE job[t].key[1] = "unpaired" -> "unpaired"
             [] job[t].key[1] = "odd"      -> "log"
             [] OTHER                      -> "routed")
  /\ UNCHANGED <<now, received, valid, rejected, pairing, caches>>

RejectPairing(t) ==
  /\ job[t].step = "unpaired"
  /\ pairing' = pairing + 1
  /\ Remember("pairings", job[t].key, job[t].at)
  /\ To(t, "refused")
  /\ UNCHANGED <<now, received, valid, rejected, callbackErrors>>

\* _log_rejection reads the clock again.
LogRejection(t) ==
  /\ job[t].step = "log"
  /\ job' = [job EXCEPT ![t].step = "logging", ![t].at = now]
  /\ UNCHANGED <<now, counters, caches>>

RememberLog(t) ==
  /\ job[t].step = "logging"
  /\ Remember("logs", job[t].key, job[t].at)
  /\ IF job[t].key[1] = "malformed" THEN job' = [job EXCEPT ![t] = Idle]
                                    ELSE To(t, "routed")
  /\ UNCHANGED <<now, counters>>

\* on_diagnostic and on_packet are called.
Deliver(t) ==
  /\ job[t].step = "routed"
  /\ CallbacksReturn(2)
  /\ To(t, "delivered")
  /\ UNCHANGED <<now, received, valid, rejected, pairing, caches>>

\* Fault: a refused session is counted where it is refused only.
CountResultOnce(t) ==
  /\ job[t].step \in {"refused", "delivered"}
  /\ IF job[t].step = "refused" THEN UNCHANGED <<valid, rejected>>
                                ELSE valid' = valid + 1 /\ UNCHANGED rejected
  /\ job' = [job EXCEPT ![t] = Idle]
  /\ UNCHANGED <<now, received, pairing, callbackErrors, caches>>

CountResult(t) ==
  /\ job[t].step \in {"refused", "delivered"}
  /\ IF job[t].step = "refused" THEN rejected' = rejected + 1 /\ UNCHANGED valid
                                ELSE valid' = valid + 1 /\ UNCHANGED rejected
  /\ job' = [job EXCEPT ![t] = Idle]
  /\ UNCHANGED <<now, received, pairing, callbackErrors, caches>>

\* set_pairing_token, on the user's click: whoever waited for it is news again.
SetPairingToken ==
  /\ cache' = [cache EXCEPT !["pairings"] = <<>>]
  /\ heard' = [k \in Keys |-> IF k[1] = "unpaired" THEN None ELSE heard[k]]
  /\ UNCHANGED <<now, job, counters, logged>>

\* Time passes, but not while a thread holds a reading of the clock for too long.
Tick ==
  /\ now < MaxTime
  /\ \A t \in Threads :
       job[t].step \notin {"idle", "log", "routed", "delivered", "refused"}
         => now - job[t].at < MaxLag
  /\ now' = now + 1
  /\ UNCHANGED <<job, counters, caches>>

Step(t) ==
  \/ Count(t) \/ Decode(t) \/ RejectMalformed(t) \/ RejectHost(t) \/ Validate(t)
  \/ RejectPairing(t) \/ LogRejection(t) \/ RememberLog(t) \/ Deliver(t) \/ CountResult(t)

Next == Tick \/ SetPairingToken \/ \E t \in Threads : Arrive(t) \/ Step(t)

Spec == Init /\ [][Next]_vars

-----------------------------------------------------------------------------
(* Properties.                                                             *)

Count01(condition) == IF condition THEN 1 ELSE 0

\* The thread has a datagram that is counted as received, and not yet with a result.
InHand(t) ==
  \/ job[t].step \in {"counted", "malformed", "foreign", "decoded", "unpaired", "routed",
                      "refused", "delivered"}
  \/ job[t].step \in {"log", "logging"} /\ job[t].key[1] # "malformed"

\* metrics() reads the counters at any moment: every datagram that was counted is
\* valid, rejected or still in a thread's hands, whichever callbacks raised, and
\* every refused session is among the rejected ones (receiver.py:322-329).
CountersAddUp ==
  /\ received = valid + rejected + Count01(InHand("udp")) + Count01(InHand("usb"))
  /\ pairing <= rejected + Count01(job["udp"].step = "refused")
                         + Count01(job["usb"].step = "refused")

\* Keys of the same cache as key that were remembered with or after it.
Since(key) ==
  LET Cache(kind) == IF kind \in {"foreign", "unpaired"} THEN kind ELSE "log"
  IN  {k \in Keys \ {key} : /\ Cache(k[1]) = Cache(key[1])
                            /\ heard[k] # None /\ heard[k] >= heard[key] - MaxLag}

\* A rejection is logged if and only if it is news: one that was not seen for the
\* cache's time is logged again, and one that is repeated within it is not, unless
\* 128 others came in between or the code was changed; up to the time that a
\* thread may have waited for the lock, since the caches expire from the front as
\* if they were in the order of time (receiver.py:350, 767-792).
RejectionsAreLogged ==
  [][\A t \in Threads :
       job[t].step \in {"foreign", "unpaired", "logging"} /\ job'[t] # job[t] =>
         LET key == job[t].key
             at  == job[t].at
         IN  IF logged'
             THEN \/ heard[key] = None
                  \/ at >= heard[key] + TTL - MaxLag
                  \/ Cardinality(Since(key)) >= MaxEntries
             ELSE heard[key] # None /\ at < heard[key] + TTL + MaxLag]_vars
=============================================================================
