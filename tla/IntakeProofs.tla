---------------------------- MODULE IntakeProofs ----------------------------
(***************************************************************************)
(* Proof that the receiver's counters add up and that a rejection is       *)
(* logged if and only if it is news, for any hosts, any bounds on the      *)
(* caches and any interleaving of the two threads.                         *)
(***************************************************************************)
EXTENDS Intake, SequenceTheorems, FiniteSetTheorems, WellFoundedInduction, TLAPS

Steps == {"stamped", "counted", "malformed", "foreign", "decoded", "unpaired", "routed",
          "refused", "delivered", "log", "logging"}

\* What a thread may have in hand: one step knows that the datagram is malformed,
\* and those past the decoder that it is not.
Jobs ==
  {j \in [step : Steps, key : Keys, at : Nat] :
     /\ j.step = "malformed" => j.key[1] = "malformed"
     /\ j.step \in {"foreign", "decoded", "unpaired", "routed", "refused", "delivered"}
          => j.key[1] # "malformed"}

\* The share of a job in the sums of CountersAddUp.
Pending(j) ==
  IF \/ j.step \in {"counted", "malformed", "foreign", "decoded", "unpaired", "routed",
                    "refused", "delivered"}
     \/ j.step \in {"log", "logging"} /\ j.key[1] # "malformed"
  THEN 1 ELSE 0
Refusal(j) == IF j.step = "refused" THEN 1 ELSE 0

\* What a step adds to the counters, its job gives up.
Balance(before, after) ==
  /\ now' \in Nat /\ received' \in Nat /\ valid' \in Nat /\ rejected' \in Nat
  /\ pairing' \in Nat
  /\ received' - received - (valid' - valid) - (rejected' - rejected)
       = Pending(after) - Pending(before)
  /\ pairing' - pairing <= rejected' - rejected + Refusal(after) - Refusal(before)

CountersType ==
  /\ now \in Nat
  /\ received \in Nat /\ valid \in Nat /\ rejected \in Nat /\ pairing \in Nat
  /\ job \in [Threads -> Jobs \cup {Idle}]

CountersInv == CountersType /\ CountersAddUp

\* The sums by the jobs.
LEMMA CountersAddUpByJobs ==
  CountersAddUp <=>
    /\ received = valid + rejected + Pending(job["udp"]) + Pending(job["usb"])
    /\ pairing <= rejected + Refusal(job["udp"]) + Refusal(job["usb"])
BY DEF CountersAddUp, InHand, Count01, Pending, Refusal

\* A thread moves on, and what it adds to the counters its job no longer claims.
LEMMA JobMoves ==
  ASSUME CountersInv, NEW t \in Threads, NEW j \in Jobs \cup {Idle},
         job' = [job EXCEPT ![t] = j], Balance(job[t], j)
  PROVE  CountersInv'
<1> DEFINE u == IF t = "udp" THEN "usb" ELSE "udp"
<1>1. /\ job'[t] = j /\ job'[u] = job[u] /\ job' \in [Threads -> Jobs \cup {Idle}]
      /\ u \in Threads
  BY DEF CountersInv, CountersType, Threads
<1>2. /\ \A i \in {job[u], job[t], j} : Pending(i) \in Nat /\ Refusal(i) \in Nat
  BY DEF Pending, Refusal
<1>3. /\ received = valid + rejected + Pending(job[t]) + Pending(job[u])
      /\ pairing <= rejected + Refusal(job[t]) + Refusal(job[u])
  <2>1. CASE t = "udp" BY <2>1, <1>2, CountersAddUpByJobs DEF CountersInv, CountersType
  <2>2. CASE t = "usb" BY <2>2, <1>2, CountersAddUpByJobs DEF CountersInv, CountersType
  <2> QED BY <2>1, <2>2 DEF Threads
<1>4. /\ received' = valid' + rejected' + Pending(job'[t]) + Pending(job'[u])
      /\ pairing' <= rejected' + Refusal(job'[t]) + Refusal(job'[u])
  <2> HIDE DEF u
  <2> QED BY <1>1, <1>2, <1>3 DEF CountersInv, CountersType, Balance
<1>5. CountersAddUp'
  <2>1. /\ \A i \in {job'[u], job'[t]} : Pending(i) \in Nat /\ Refusal(i) \in Nat
        /\ valid' \in Nat /\ rejected' \in Nat
    BY DEF Pending, Refusal, Balance
  <2>2. CountersAddUp' <=>
          /\ received' = valid' + rejected' + Pending(job'["udp"]) + Pending(job'["usb"])
          /\ pairing' <= rejected' + Refusal(job'["udp"]) + Refusal(job'["usb"])
    BY DEF CountersAddUp, InHand, Count01, Pending, Refusal
  <2>3. CASE t = "udp" BY <2>1, <2>2, <2>3, <1>4
  <2>4. CASE t = "usb" BY <2>1, <2>2, <2>4, <1>4
  <2> QED BY <2>3, <2>4 DEF Threads
<1> QED BY <1>1, <1>5 DEF CountersInv, CountersType, Balance

\* A job that is not idle keeps its key when only its step changes.
LEMMA JobInHand ==
  ASSUME CountersInv, NEW t \in Threads, job[t].step # "idle", NEW s \in Steps,
         s = "malformed" => job[t].key[1] = "malformed",
         s \in {"foreign", "decoded", "unpaired", "routed", "refused", "delivered"}
           => job[t].key[1] # "malformed"
  PROVE  /\ job[t] \in Jobs
         /\ [job[t] EXCEPT !.step = s] \in Jobs
         /\ [job[t] EXCEPT !.step = s].step = s
         /\ [job[t] EXCEPT !.step = s].key = job[t].key
         /\ [job EXCEPT ![t].step = s] = [job EXCEPT ![t] = [job[t] EXCEPT !.step = s]]
<1>1. job[t] \in Jobs BY DEF CountersInv, CountersType, Idle
<1>2. /\ [job[t] EXCEPT !.step = s] \in [step : Steps, key : Keys, at : Nat]
      /\ [job[t] EXCEPT !.step = s].step = s
      /\ [job[t] EXCEPT !.step = s].key = job[t].key
  BY <1>1 DEF Jobs
<1>3. [job EXCEPT ![t].step = s] = [job EXCEPT ![t] = [job[t] EXCEPT !.step = s]]
  OBVIOUS
<1>4. [job[t] EXCEPT !.step = s] \in Jobs BY <1>2 DEF Jobs
<1> QED BY <1>1, <1>2, <1>3, <1>4

\* A step that changes only the step of a job, and perhaps the counters.
LEMMA StepMoves ==
  ASSUME CountersInv, NEW t \in Threads, job[t].step # "idle", NEW s \in Steps,
         s = "malformed" => job[t].key[1] = "malformed",
         s \in {"foreign", "decoded", "unpaired", "routed", "refused", "delivered"}
           => job[t].key[1] # "malformed",
         To(t, s), Balance(job[t], [step |-> s, key |-> job[t].key])
  PROVE  CountersInv'
<1> DEFINE j == [job[t] EXCEPT !.step = s]
<1>1. /\ j \in Jobs /\ j.step = s /\ j.key = job[t].key
      /\ job' = [job EXCEPT ![t] = j]
  BY JobInHand DEF To
<1>2. /\ Pending(j) = Pending([step |-> s, key |-> job[t].key])
      /\ Refusal(j) = Refusal([step |-> s, key |-> job[t].key])
  BY <1>1 DEF Pending, Refusal
<1> HIDE DEF j
<1>3. Balance(job[t], j) BY <1>2 DEF Balance
<1> QED BY <1>1, <1>3, JobMoves

\* A thread is done with its datagram.
LEMMA JobEnds ==
  ASSUME CountersInv, NEW t \in Threads, job' = [job EXCEPT ![t] = Idle],
         Balance(job[t], Idle)
  PROVE  CountersInv'
BY JobMoves

-----------------------------------------------------------------------------
LEMMA InitCounters == Init => CountersInv
<1> SUFFICES ASSUME Init PROVE CountersInv OBVIOUS
<1>1. CountersType BY DEF Init, CountersType
<1>2. job["udp"] = Idle /\ job["usb"] = Idle BY DEF Init, Threads
<1>3. CountersAddUp BY <1>2 DEF Init, CountersAddUp, InHand, Count01, Idle
<1> QED BY <1>1, <1>3 DEF CountersInv

LEMMA ThreadKeepsCounters ==
  ASSUME CountersInv, NEW t \in Threads, Arrive(t) \/ Step(t)
  PROVE  CountersInv'
<1>0. /\ now \in Nat /\ received \in Nat /\ valid \in Nat /\ rejected \in Nat
      /\ pairing \in Nat /\ job[t] \in Jobs \cup {Idle}
  BY DEF CountersInv, CountersType
<1>i. Pending(Idle) = 0 /\ Refusal(Idle) = 0 BY DEF Pending, Refusal, Idle
<1>1. CASE Arrive(t)
  <2>1. PICK kind \in WifiKinds \cup CableKinds, origin \in Hosts \cup {"usb"} :
          /\ <<kind, origin>> \in Keys
          /\ job' = [job EXCEPT ![t] = [step |-> "stamped", key |-> <<kind, origin>>,
                                        at |-> now]]
    BY <1>1 DEF Arrive, Origins, Keys, Threads
  <2> DEFINE j == [step |-> "stamped", key |-> <<kind, origin>>, at |-> now]
  <2>2. j \in Jobs BY <1>0, <2>1 DEF Jobs, Steps
  <2>3. /\ Pending(j) = 0 /\ Refusal(j) = 0
        /\ Pending(job[t]) = 0 /\ Refusal(job[t]) = 0
    BY <1>1 DEF Arrive, Pending, Refusal
  <2>4. job' = [job EXCEPT ![t] = j] BY <2>1
  <2>5. /\ now' = now /\ received' = received /\ valid' = valid /\ rejected' = rejected
        /\ pairing' = pairing
    BY <1>1 DEF Arrive, counters
  <2> HIDE DEF j
  <2>9. Balance(job[t], j) BY <1>0, <2>2, <2>3, <2>4, <2>5 DEF Balance
  <2> QED BY <2>2, <2>3, <2>4, <2>5, <2>9, JobMoves
<1>2. CASE Count(t)
  <2>1. job[t].step = "stamped" /\ To(t, "counted") BY <1>2 DEF Count
  <2>2. /\ Pending([step |-> "counted", key |-> job[t].key]) = 1 /\ Pending(job[t]) = 0
        /\ Refusal([step |-> "counted", key |-> job[t].key]) = 0 /\ Refusal(job[t]) = 0
    BY <2>1 DEF Pending, Refusal
  <2>3. /\ now' = now /\ received' = received + 1 /\ valid' = valid
        /\ rejected' = rejected /\ pairing' = pairing
    BY <1>2 DEF Count
  <2>9. Balance(job[t], [step |-> "counted", key |-> job[t].key])
    BY <1>0, <2>1, <2>2, <2>3 DEF Balance
  <2> QED BY <2>1, <2>2, <2>3, <2>9, StepMoves DEF Steps
<1>3. CASE Decode(t)
  <2> DEFINE s == CASE job[t].key[1] = "malformed" -> "malformed"
                    [] job[t].key[1] = "foreign"   -> "foreign"
                    [] OTHER                       -> "decoded"
  <2>1. job[t].step = "counted" /\ To(t, s) BY <1>3 DEF Decode
  <2>2. /\ s \in {"malformed", "foreign", "decoded"}
        /\ s = "malformed" <=> job[t].key[1] = "malformed"
    OBVIOUS
  <2>3. /\ now' = now /\ received' = received /\ valid' = valid /\ rejected' = rejected
        /\ pairing' = pairing
    BY <1>3 DEF Decode
  <2> HIDE DEF s
  <2>4. /\ Pending([step |-> s, key |-> job[t].key]) = 1 /\ Pending(job[t]) = 1
        /\ Refusal([step |-> s, key |-> job[t].key]) = 0 /\ Refusal(job[t]) = 0
    BY <2>1, <2>2 DEF Pending, Refusal
  <2>9. Balance(job[t], [step |-> s, key |-> job[t].key])
    BY <1>0, <2>1, <2>2, <2>3, <2>4 DEF Balance
  <2> QED BY <2>1, <2>2, <2>3, <2>4, <2>9, StepMoves DEF Steps
<1>4. CASE RejectMalformed(t)
  <2>1. job[t].step = "malformed" /\ To(t, "log") BY <1>4 DEF RejectMalformed
  <2>2. job[t].key[1] = "malformed" BY <1>0, <2>1 DEF Jobs, Idle
  <2>3. /\ Pending([step |-> "log", key |-> job[t].key]) = 0 /\ Pending(job[t]) = 1
        /\ Refusal([step |-> "log", key |-> job[t].key]) = 0 /\ Refusal(job[t]) = 0
    BY <2>1, <2>2 DEF Pending, Refusal
  <2>4. /\ now' = now /\ received' = received /\ valid' = valid
        /\ rejected' = rejected + 1 /\ pairing' = pairing
    BY <1>4 DEF RejectMalformed
  <2>9. Balance(job[t], [step |-> "log", key |-> job[t].key])
    BY <1>0, <2>1, <2>3, <2>4 DEF Balance
  <2> QED BY <2>1, <2>3, <2>4, <2>9, StepMoves DEF Steps
<1>5. CASE RejectHost(t)
  <2>1. Pending(job[t]) = 1 /\ Refusal(job[t]) = 0
    BY <1>5 DEF RejectHost, Pending, Refusal
  <2>2. /\ now' = now /\ received' = received /\ valid' = valid
        /\ rejected' = rejected + 1 /\ pairing' = pairing
        /\ job' = [job EXCEPT ![t] = Idle]
    BY <1>5 DEF RejectHost
  <2>9. Balance(job[t], Idle) BY <1>0, <2>1, <2>2, <1>i DEF Balance
  <2> QED BY <2>1, <2>2, <2>9, JobEnds
<1>6. CASE Validate(t)
  <2> DEFINE s == CASE job[t].key[1] = "unpaired" -> "unpaired"
                    [] job[t].key[1] = "odd"      -> "log"
                    [] OTHER                      -> "routed"
  <2>1. job[t].step = "decoded" /\ To(t, s) BY <1>6 DEF Validate
  <2>2. s \in {"unpaired", "log", "routed"} OBVIOUS
  <2>3. job[t].key[1] # "malformed" BY <1>0, <2>1 DEF Jobs, Idle
  <2>4. /\ now' = now /\ received' = received /\ valid' = valid /\ rejected' = rejected
        /\ pairing' = pairing
    BY <1>6 DEF Validate
  <2> HIDE DEF s
  <2>5. /\ Pending([step |-> s, key |-> job[t].key]) = 1 /\ Pending(job[t]) = 1
        /\ Refusal([step |-> s, key |-> job[t].key]) = 0 /\ Refusal(job[t]) = 0
    BY <2>1, <2>2, <2>3 DEF Pending, Refusal
  <2>9. Balance(job[t], [step |-> s, key |-> job[t].key])
    BY <1>0, <2>1, <2>2, <2>3, <2>4, <2>5 DEF Balance
  <2> QED BY <2>1, <2>2, <2>3, <2>4, <2>5, <2>9, StepMoves DEF Steps
<1>7. CASE RejectPairing(t)
  <2>1. job[t].step = "unpaired" /\ To(t, "refused") BY <1>7 DEF RejectPairing
  <2>2. job[t].key[1] # "malformed" BY <1>0, <2>1 DEF Jobs, Idle
  <2>3. /\ Pending([step |-> "refused", key |-> job[t].key]) = 1 /\ Pending(job[t]) = 1
        /\ Refusal([step |-> "refused", key |-> job[t].key]) = 1 /\ Refusal(job[t]) = 0
    BY <2>1 DEF Pending, Refusal
  <2>4. /\ now' = now /\ received' = received /\ valid' = valid
        /\ rejected' = rejected /\ pairing' = pairing + 1
    BY <1>7 DEF RejectPairing
  <2>9. Balance(job[t], [step |-> "refused", key |-> job[t].key])
    BY <1>0, <2>1, <2>2, <2>3, <2>4 DEF Balance
  <2> QED BY <2>1, <2>2, <2>3, <2>4, <2>9, StepMoves DEF Steps
<1>8. CASE LogRejection(t)
  <2> DEFINE j == [job[t] EXCEPT !.step = "logging", !.at = now]
  <2>1. job[t].step = "log" BY <1>8 DEF LogRejection
  <2>2. job[t] \in Jobs BY <1>0, <2>1 DEF Idle
  <2>3. j \in [step : Steps, key : Keys, at : Nat] /\ j.step = "logging"
        /\ j.key = job[t].key
    BY <1>0, <2>2 DEF Jobs, Steps
  <2>4. job' = [job EXCEPT ![t] = j] BY <1>8 DEF LogRejection
  <2>5. /\ now' = now /\ received' = received /\ valid' = valid /\ rejected' = rejected
        /\ pairing' = pairing
    BY <1>8 DEF LogRejection, counters
  <2> HIDE DEF j
  <2>6. j \in Jobs BY <2>3 DEF Jobs
  <2>7. Pending(j) = Pending(job[t]) /\ Refusal(j) = Refusal(job[t])
    BY <2>1, <2>3 DEF Pending, Refusal
  <2>8. Pending(job[t]) \in Nat /\ Refusal(job[t]) \in Nat BY DEF Pending, Refusal
  <2>9. Balance(job[t], j) BY <1>0, <2>4, <2>5, <2>6, <2>7, <2>8 DEF Balance
  <2> QED BY <2>4, <2>5, <2>6, <2>7, <2>8, <2>9, JobMoves
<1>9. CASE RememberLog(t)
  <2>1. job[t].step = "logging" BY <1>9 DEF RememberLog
  <2>2. /\ now' = now /\ received' = received /\ valid' = valid /\ rejected' = rejected
        /\ pairing' = pairing
    BY <1>9 DEF RememberLog, counters
  <2>3. CASE job[t].key[1] = "malformed"
    <3>1. Pending(job[t]) = 0 /\ Refusal(job[t]) = 0 BY <2>1, <2>3 DEF Pending, Refusal
    <3>2. job' = [job EXCEPT ![t] = Idle] BY <1>9, <2>3 DEF RememberLog
    <3>9. Balance(job[t], Idle) BY <1>0, <2>2, <3>1, <3>2, <1>i DEF Balance
    <3> QED BY <2>2, <3>1, <3>2, <3>9, JobEnds
  <2>4. CASE job[t].key[1] # "malformed"
    <3>1. /\ Pending([step |-> "routed", key |-> job[t].key]) = 1 /\ Pending(job[t]) = 1
          /\ Refusal([step |-> "routed", key |-> job[t].key]) = 0 /\ Refusal(job[t]) = 0
      BY <2>1, <2>4 DEF Pending, Refusal
    <3>2. To(t, "routed") BY <1>9, <2>4 DEF RememberLog
    <3>9. Balance(job[t], [step |-> "routed", key |-> job[t].key])
      BY <1>0, <2>1, <2>2, <2>4, <3>1, <3>2 DEF Balance
    <3> QED BY <2>1, <2>2, <2>4, <3>1, <3>2, <3>9, StepMoves DEF Steps
  <2> QED BY <2>3, <2>4
<1>10. CASE Deliver(t)
  <2>1. job[t].step = "routed" /\ To(t, "delivered") BY <1>10 DEF Deliver
  <2>2. job[t].key[1] # "malformed" BY <1>0, <2>1 DEF Jobs, Idle
  <2>3. /\ Pending([step |-> "delivered", key |-> job[t].key]) = 1 /\ Pending(job[t]) = 1
        /\ Refusal([step |-> "delivered", key |-> job[t].key]) = 0 /\ Refusal(job[t]) = 0
    BY <2>1 DEF Pending, Refusal
  <2>4. /\ now' = now /\ received' = received /\ valid' = valid /\ rejected' = rejected
        /\ pairing' = pairing
    BY <1>10 DEF Deliver
  <2>9. Balance(job[t], [step |-> "delivered", key |-> job[t].key])
    BY <1>0, <2>1, <2>2, <2>3, <2>4 DEF Balance
  <2> QED BY <2>1, <2>2, <2>3, <2>4, <2>9, StepMoves DEF Steps
<1>11. CASE CountResult(t)
  <2>1. Pending(job[t]) = 1 BY <1>11 DEF CountResult, Pending
  <2>2. /\ now' = now /\ received' = received /\ pairing' = pairing
        /\ job' = [job EXCEPT ![t] = Idle]
    BY <1>11 DEF CountResult
  <2>3. CASE job[t].step = "refused"
    <3>1. valid' = valid /\ rejected' = rejected + 1 /\ Refusal(job[t]) = 1
      BY <1>11, <2>3 DEF CountResult, Refusal
    <3>9. Balance(job[t], Idle) BY <1>0, <2>1, <2>2, <3>1, <1>i DEF Balance
    <3> QED BY <2>1, <2>2, <3>1, <3>9, JobEnds
  <2>4. CASE job[t].step # "refused"
    <3>1. valid' = valid + 1 /\ rejected' = rejected /\ Refusal(job[t]) = 0
      BY <1>11, <2>4 DEF CountResult, Refusal
    <3>9. Balance(job[t], Idle) BY <1>0, <2>1, <2>2, <3>1, <1>i DEF Balance
    <3> QED BY <2>1, <2>2, <3>1, <3>9, JobEnds
  <2> QED BY <2>3, <2>4
<1> QED BY <1>1, <1>2, <1>3, <1>4, <1>5, <1>6, <1>7, <1>8, <1>9, <1>10, <1>11 DEF Step

LEMMA NextKeepsCounters == CountersInv /\ [Next]_vars => CountersInv'
<1> SUFFICES ASSUME CountersInv, [Next]_vars PROVE CountersInv' OBVIOUS
<1>1. CASE \E t \in Threads : Arrive(t) \/ Step(t) BY <1>1, ThreadKeepsCounters
<1>2. CASE Tick \/ SetPairingToken \/ UNCHANGED vars
  <2>1. /\ job' = job /\ received' = received /\ valid' = valid /\ rejected' = rejected
        /\ pairing' = pairing
    BY <1>2 DEF Tick, SetPairingToken, vars, counters
  <2>2. now' \in Nat
    BY <1>2 DEF Tick, SetPairingToken, vars, CountersInv, CountersType
  <2>3. CountersType' BY <2>1, <2>2 DEF CountersInv, CountersType
  <2>4. CountersAddUp' BY <2>1 DEF CountersInv, CountersAddUp, InHand, Count01
  <2> QED BY <2>3, <2>4 DEF CountersInv
<1> QED BY <1>1, <1>2 DEF Next

\* metrics() may be read at any moment: the counters of received, valid, rejected and
\* refused datagrams always add up (receiver.py:439-574).
THEOREM CountersAddUpHolds == Spec => []CountersAddUp
<1>1. CountersInv => CountersAddUp BY DEF CountersInv
<1> QED BY <1>1, InitCounters, NextKeepsCounters, PTL DEF Spec

-----------------------------------------------------------------------------
(* The rejection caches.                                                   *)

\* The keys of each cache, and what the cache holds of them.
KeysOf(c) ==
  {k \in Keys : CASE c = "hosts"    -> k[1] = "foreign"
                  [] c = "pairings" -> k[1] = "unpaired"
                  [] c = "logs"     -> k[1] \notin {"foreign", "unpaired"}}
Entries(c) == [key : KeysOf(c), seenAt : Nat]

\* A key has one entry; and the later one is not older than the lag.
Ordered(s) ==
  \A i, j \in DOMAIN s :
    i < j => s[i].key # s[j].key /\ s[i].seenAt <= s[j].seenAt + MaxLag

\* The rejection that a job still has to report is of the step's own cache.
Sorted(j) ==
  /\ j.step = "foreign" => j.key \in KeysOf("hosts")
  /\ j.step = "unpaired" => j.key \in KeysOf("pairings")
  /\ j.step = "decoded" => j.key[1] # "foreign"
  /\ j.step \in {"malformed", "log", "logging"} => j.key \in KeysOf("logs")

\* Its reading of the clock is not older than the lag.
Recent(j, time) ==
  j.step \notin {"idle", "log", "routed", "delivered", "refused"} =>
    j.at <= time /\ time <= j.at + MaxLag

JobsInv == \A t \in Threads : Sorted(job[t]) /\ Recent(job[t], now)

HeardType ==
  /\ heard \in [Keys -> Nat \cup {None}]
  /\ \A k \in Keys : heard[k] # None => heard[k] <= now
  /\ IsFiniteSet({k \in Keys : heard[k] # None})

\* A key that is missing in its cache was last seen long ago, or there were too
\* many others since.
MissingIsOld(c) ==
  \A k \in KeysOf(c) :
    heard[k] # None /\ ~Holds(cache[c], k) =>
      now >= heard[k] + TTL \/ Cardinality(Since(k)) >= MaxEntries

CacheInv(c) ==
  /\ cache[c] \in Seq(Entries(c)) /\ Ordered(cache[c])
  /\ \A i \in 1..Len(cache[c]) : heard[cache[c][i].key] = cache[c][i].seenAt
  /\ MissingIsOld(c)

CachesInv ==
  /\ DOMAIN cache = Caches /\ HeardType
  /\ \A c \in Caches : CacheInv(c)

LogInv == CountersInv /\ JobsInv /\ CachesInv

Pairs == [key : Keys, seenAt : Nat]

\* The least of a set of naturals.
LEMMA MinOfNonempty ==
  ASSUME NEW S \in SUBSET Nat, S # {}
  PROVE  Min(S) \in S /\ \A i \in S : Min(S) <= i
<1>1. \A x, y \in Nat : ~ (<<y, x>> \in OpToRel(<, Nat)) => ~(y < x)
  BY Zenon DEF OpToRel
<1>2. \E x \in S : \A y \in S : ~ (<<y, x>> \in OpToRel(<, Nat))
  BY WFMin, NatLessThanWellFounded, Zenon
<1>3. \E x \in S : \A y \in S : ~(y < x) BY <1>1, <1>2, Zenon
<1>4. \E x \in S : \A y \in S : x <= y BY <1>3, SMT
<1> QED BY <1>4, Zenon DEF Min

LEMMA SuffixIs ==
  ASSUME NEW E, NEW s \in Seq(E), NEW k \in 0..Len(s)
  PROVE  LET n == SubSeq(s, k + 1, Len(s)) IN
         /\ n \in Seq(E) /\ Len(n) = Len(s) - k
         /\ \A i \in 1..Len(n) : k + i \in 1..Len(s) /\ n[i] = s[k + i]
<1> DEFINE a == k + 1
           b == Len(s)
           n == SubSeq(s, a, b)
<1>1. b \in Nat /\ a \in Int /\ \A i \in 1..b : s[i] \in E
  BY LenProperties, ElementOfSeq
<1>2. \A i \in a..b : s[i] \in E
  BY <1>1, SMT
<1>3. /\ n \in Seq(E) /\ Len(n) = IF a <= b THEN b - a + 1 ELSE 0
      /\ \A i \in 1..(b - a + 1) : n[i] = s[a + i - 1]
  <2> HIDE DEF a, b
  <2>1. QED
    BY <1>1, <1>2, SubSeqProperties
<1> HIDE DEF n
<1>4. Len(n) = b - k /\ b - a + 1 = b - k
  BY <1>1, <1>3, SMT
<1>5. \A i \in 1..(b - k) : k + i \in 1..b /\ a + i - 1 = k + i
  BY <1>1, SMT
<1>6. \A i \in 1..(b - k) : n[i] = s[k + i]
  BY <1>3, <1>4, <1>5
<1>7. QED
  BY <1>3, <1>4, <1>5, <1>6 DEF n

\* The part of a cache that _expire_cache_locked leaves.
LEMMA ExpireIs ==
  ASSUME NEW E \in SUBSET Pairs, NEW s \in Seq(E), NEW at \in Nat
  PROVE  \E k \in 0..Len(s) :
           /\ Expire(s, at) = SubSeq(s, k + 1, Len(s))
           /\ \A i \in 1..k : s[i].seenAt + TTL <= at
           /\ k < Len(s) => s[k + 1].seenAt + TTL > at
<1> DEFINE young == {i \in DOMAIN s : s[i].seenAt + TTL > at}
<1>1. Len(s) \in Nat /\ DOMAIN s = 1..Len(s) /\ \A i \in 1..Len(s) : s[i].seenAt \in Nat
  BY LenProperties, ElementOfSeq DEF Pairs
<1>2. TTL \in Nat
  BY IntakeAssumption
<1>3. CASE young = {}
  <2>1. Expire(s, at) = SubSeq(s, Len(s) + 1, Len(s))
    <3>1. Expire(s, at) = <<>>
      BY <1>3 DEF Expire
    <3>2. SubSeq(s, Len(s) + 1, Len(s)) = <<>>
      BY <1>1, SubSeqEmpty
    <3>3. QED
      BY <3>1, <3>2
  <2>2. \A i \in 1..Len(s) : s[i].seenAt + TTL <= at
    BY <1>1, <1>2, <1>3, SMT
  <2>3. QED
    BY <1>1, <2>1, <2>2
<1>4. CASE young # {}
  <2> DEFINE m == Min(young)
  <2>0. young \in SUBSET Nat BY <1>1
  <2>1. m \in young /\ \A i \in young : m <= i
    <3> HIDE DEF young
    <3> QED BY <2>0, <1>4, MinOfNonempty, Zenon
  <2>2. Expire(s, at) = SubSeq(s, m, Len(s))
    BY <1>4 DEF Expire
  <2> HIDE DEF m
  <2>3. m \in 1..Len(s) /\ s[m].seenAt + TTL > at
    BY <1>1, <2>1
  <2>4. \A i \in 1..(m - 1) : s[i].seenAt + TTL <= at
    <3>1. ASSUME NEW i \in 1..(m - 1)  PROVE  s[i].seenAt + TTL <= at
      <4>1. i \in 1..Len(s) /\ ~(m <= i)
        BY <1>1, <2>3, SMT
      <4>2. ~(s[i].seenAt + TTL > at)
        BY <1>1, <2>1, <4>1
      <4>3. QED
        BY <1>1, <1>2, <4>1, <4>2, SMT
    <3>2. QED
      BY <3>1
  <2>5. m - 1 \in 0..Len(s) /\ (m - 1) + 1 = m
    BY <1>1, <2>3, SMT
  <2>6. QED
    BY <2>2, <2>3, <2>4, <2>5
<1>5. QED
  BY <1>3, <1>4


\* What is behind the first k entries of a cache.
LEMMA SuffixKeeps ==
  ASSUME NEW E \in SUBSET Pairs, NEW s \in Seq(E), Ordered(s), NEW k \in 0..Len(s)
  PROVE  LET n == SubSeq(s, k + 1, Len(s)) IN
         /\ n \in Seq(E) /\ Len(n) = Len(s) - k /\ Ordered(n)
         /\ \A i \in 1..Len(n) : k + i \in 1..Len(s) /\ n[i] = s[k + i]
<1> DEFINE n == SubSeq(s, k + 1, Len(s))
<1>1. /\ n \in Seq(E) /\ Len(n) = Len(s) - k
      /\ \A i \in 1..Len(n) : k + i \in 1..Len(s) /\ n[i] = s[k + i]
  BY SuffixIs
<1> HIDE DEF n
<1>2. /\ DOMAIN n = 1..Len(n) /\ DOMAIN s = 1..Len(s) /\ Len(n) \in Nat
  BY <1>1, LenProperties
<1>3. ASSUME NEW i \in DOMAIN n, NEW j \in DOMAIN n, i < j
      PROVE  n[i].key # n[j].key /\ n[i].seenAt <= n[j].seenAt + MaxLag
  <2>1. k + i \in DOMAIN s /\ k + j \in DOMAIN s /\ n[i] = s[k + i] /\ n[j] = s[k + j]
    BY <1>1, <1>2
  <2>2. k + i < k + j BY <1>2, <1>3, SMT
  <2>3. /\ s[k + i].key # s[k + j].key /\ s[k + i].seenAt <= s[k + j].seenAt + MaxLag
    BY <2>1, <2>2, Zenon DEF Ordered
  <2> QED BY <2>1, <2>3, Zenon
<1>4. Ordered(n) BY <1>3, Zenon DEF Ordered
<1> QED BY <1>1, <1>4 DEF n

\* _expire_cache_locked: what goes is old, and what stays is older than the cache's
\* time by the lag at most.
LEMMA ExpireKeeps ==
  ASSUME NEW E \in SUBSET Pairs, NEW s \in Seq(E), Ordered(s), NEW at \in Nat
  PROVE  LET f == Expire(s, at) IN
         /\ f \in Seq(E) /\ Ordered(f)
         /\ \A i \in 1..Len(f) : /\ \E j \in 1..Len(s) : f[i] = s[j]
                                 /\ at < f[i].seenAt + TTL + MaxLag
         /\ \A j \in 1..Len(s) : \/ s[j].seenAt + TTL <= at
                                 \/ \E i \in 1..Len(f) : f[i] = s[j]
<1> DEFINE f == Expire(s, at)
<1>1. PICK k \in 0..Len(s) :
        /\ f = SubSeq(s, k + 1, Len(s))
        /\ \A i \in 1..k : s[i].seenAt + TTL <= at
        /\ k < Len(s) => s[k + 1].seenAt + TTL > at
  BY ExpireIs
<1> HIDE DEF f
<1>2. /\ f \in Seq(E) /\ Len(f) = Len(s) - k /\ Ordered(f)
      /\ \A i \in 1..Len(f) : k + i \in 1..Len(s) /\ f[i] = s[k + i]
  BY <1>1, SuffixKeeps
<1>3. /\ Len(s) \in Nat /\ Len(f) \in Nat /\ DOMAIN f = 1..Len(f)
      /\ \A i \in 1..Len(s) : s[i].seenAt \in Nat
      /\ TTL \in Nat /\ MaxLag \in Nat
  BY <1>2, LenProperties, ElementOfSeq, IntakeAssumption DEF Pairs
<1>4. ASSUME NEW i \in 1..Len(f)
      PROVE  /\ \E j \in 1..Len(s) : f[i] = s[j]
             /\ at < f[i].seenAt + TTL + MaxLag
  <2>1. k + i \in 1..Len(s) /\ f[i] = s[k + i] BY <1>2
  <2>2. 1 \in 1..Len(f) /\ k < Len(s) BY <1>2, <1>3, SMT
  <2>3. f[1] = s[k + 1] /\ s[k + 1].seenAt + TTL > at /\ k + 1 \in 1..Len(s)
    BY <1>1, <1>2, <2>2
  <2>4. f[1].seenAt <= f[i].seenAt + MaxLag
    <3>1. CASE i = 1
      <4>1. f[i].seenAt \in Nat BY <1>3, <2>1
      <4> QED BY <3>1, <4>1, <1>3, SMT
    <3>2. CASE i # 1
      <4>1. 1 < i BY <3>2, <1>3, SMT
      <4> QED BY <4>1, <1>2, <1>3, <2>2 DEF Ordered
    <3> QED BY <3>1, <3>2
  <2>5. f[1].seenAt \in Nat /\ f[i].seenAt \in Nat BY <1>3, <2>1, <2>3
  <2>6. f[1].seenAt + TTL > at BY <2>3
  <2>7. at < f[i].seenAt + TTL + MaxLag BY <1>3, <2>4, <2>5, <2>6, SMT
  <2> QED BY <2>1, <2>7
<1>5. ASSUME NEW j \in 1..Len(s)
      PROVE  \/ s[j].seenAt + TTL <= at
             \/ \E i \in 1..Len(f) : f[i] = s[j]
  <2>1. CASE j \in 1..k BY <2>1, <1>1
  <2>2. CASE j \notin 1..k
    <3>1. j - k \in 1..Len(f) /\ k + (j - k) = j BY <2>2, <1>2, <1>3, SMT
    <3>2. f[j - k] = s[j] BY <3>1, <1>2
    <3> QED BY <3>1, <3>2
  <2> QED BY <2>1, <2>2
<1> QED BY <1>2, <1>4, <1>5 DEF f


\* move_to_end: the entry of the key goes from its place, the others stay in order.
LEMMA WithoutKeeps ==
  ASSUME NEW E \in SUBSET Pairs, NEW s \in Seq(E), Ordered(s), NEW key
  PROVE  LET w == Without(s, key) IN
         /\ w \in Seq(E) /\ Ordered(w)
         /\ \A i \in 1..Len(w) : w[i].key # key /\ \E j \in 1..Len(s) : w[i] = s[j]
         /\ \A j \in 1..Len(s) : s[j].key # key => \E i \in 1..Len(w) : w[i] = s[j]
<1>0. Len(s) \in Nat /\ DOMAIN s = 1..Len(s) BY LenProperties
<1>1. CASE ~Holds(s, key)
  <2>1. Without(s, key) = s BY <1>1, Zenon DEF Without
  <2>2. \A i \in 1..Len(s) : s[i].key # key BY <1>0, <1>1, Zenon DEF Holds
  <2> QED BY <2>1, <2>2
<1>2. CASE Holds(s, key)
  <2> DEFINE p == CHOOSE i \in DOMAIN s : s[i].key = key
             a == SubSeq(s, 1, p - 1)
             b == SubSeq(s, p + 1, Len(s))
             w == a \o b
  <2>1. p \in 1..Len(s) /\ s[p].key = key BY <1>0, <1>2, Zenon DEF Holds
  <2>2. Without(s, key) = w BY <1>2, Zenon DEF Without, RemoveAt
  <2> HIDE DEF p
  <2>3. /\ p - 1 \in 0..Len(s) /\ p \in 0..Len(s) /\ 1 \in Int /\ p - 1 \in Int
        /\ (p - 1) - 1 + 1 = p - 1 /\ (1 <= p - 1 \/ p - 1 = 0)
    BY <1>0, <2>1, SMT
  <2>4. /\ b \in Seq(E) /\ Len(b) = Len(s) - p
        /\ \A i \in 1..Len(b) : p + i \in 1..Len(s) /\ b[i] = s[p + i]
    BY <2>3, SuffixIs
  <2>5. /\ a \in Seq(E) /\ Len(a) = p - 1 /\ \A i \in 1..Len(a) : a[i] = s[i]
    <3>1. \A i \in 1..(p - 1) : i \in 1..Len(s) /\ 1 + i - 1 = i BY <1>0, <2>1, SMT
    <3>2. \A i \in 1..(p - 1) : s[i] \in E BY <3>1, ElementOfSeq
    <3>3. /\ a \in Seq(E)
          /\ Len(a) = IF 1 <= p - 1 THEN (p - 1) - 1 + 1 ELSE 0
          /\ \A i \in 1..((p - 1) - 1 + 1) : a[i] = s[1 + i - 1]
      <4> HIDE DEF a
      <4> QED BY <2>3, <3>2, SubSeqProperties DEF a
    <3> HIDE DEF a
    <3>4. Len(a) = p - 1 BY <2>3, <3>3
    <3>5. \A i \in 1..(p - 1) : a[i] = s[i] BY <2>3, <3>1, <3>3
    <3> QED BY <3>3, <3>4, <3>5
  <2> HIDE DEF a, b
  <2>6. /\ w \in Seq(E) /\ Len(w) = Len(a) + Len(b)
        /\ \A i \in 1..(Len(a) + Len(b)) :
             w[i] = IF i <= Len(a) THEN a[i] ELSE b[i - Len(a)]
    BY <2>4, <2>5, ConcatProperties
  <2> HIDE DEF w
  \* Where an entry comes from, and where it goes.
  <2> DEFINE from(i) == IF i < p THEN i ELSE i + 1
  <2>7. Len(w) = Len(s) - 1 BY <1>0, <2>1, <2>4, <2>5, <2>6, SMT
  <2>8. ASSUME NEW i \in 1..Len(w)
        PROVE  from(i) \in 1..Len(s) /\ w[i] = s[from(i)] /\ from(i) # p
    <3>1. CASE i < p
      <4>1. i \in 1..Len(a) /\ i <= Len(a) /\ i \in 1..(Len(a) + Len(b))
            /\ i \in 1..Len(s) /\ i # p
        BY <3>1, <1>0, <2>1, <2>4, <2>5, <2>7, SMT
      <4>2. w[i] = a[i] BY <4>1, <2>6
      <4> QED BY <4>1, <4>2, <3>1, <2>5
    <3>2. CASE ~(i < p)
      <4>1. /\ ~(i <= Len(a)) /\ i \in 1..(Len(a) + Len(b)) /\ i - Len(a) \in 1..Len(b)
            /\ p + (i - Len(a)) = i + 1 /\ i + 1 \in 1..Len(s) /\ i + 1 # p
        BY <3>2, <1>0, <2>1, <2>4, <2>5, <2>7, SMT
      <4>2. w[i] = b[i - Len(a)] BY <4>1, <2>6
      <4>3. b[i - Len(a)] = s[p + (i - Len(a))] BY <4>1, <2>4
      <4>4. w[i] = s[i + 1] BY <4>1, <4>2, <4>3
      <4> QED BY <4>1, <4>4, <3>2
    <3> QED BY <3>1, <3>2
  <2>9. ASSUME NEW i \in 1..Len(w), NEW j \in 1..Len(w), i < j
        PROVE  from(i) < from(j)
    BY <2>9, <1>0, <2>1, <2>7, SMT
  <2>10. DOMAIN w = 1..Len(w) BY <2>6, LenProperties
  <2>11. ASSUME NEW j \in 1..Len(s), s[j].key # key
         PROVE  \E i \in 1..Len(w) : w[i] = s[j]
    <3>1. PICK i \in 1..Len(w) : from(i) = j
      <4>1. j # p BY <2>1, <2>11
      <4>2. CASE j < p
        <5>1. j \in 1..Len(w) BY <4>2, <1>0, <2>1, <2>7, SMT
        <5> QED BY <4>2, <5>1
      <4>3. CASE ~(j < p)
        <5>1. j - 1 \in 1..Len(w) /\ ~(j - 1 < p) /\ (j - 1) + 1 = j
          BY <4>1, <4>3, <1>0, <2>1, <2>7, SMT
        <5> QED BY <5>1
      <4> QED BY <4>2, <4>3
    <3> QED BY <3>1, <2>8
  <2> HIDE DEF from
  <2>12. ASSUME NEW i \in 1..Len(w)
         PROVE  w[i].key # key /\ \E j \in 1..Len(s) : w[i] = s[j]
    <3>1. from(i) \in 1..Len(s) /\ w[i] = s[from(i)] /\ from(i) # p BY <2>8
    <3>2. CASE from(i) < p BY <3>1, <3>2, <1>0, <2>1 DEF Ordered
    <3>3. CASE p < from(i) BY <3>1, <3>3, <1>0, <2>1 DEF Ordered
    <3>4. from(i) < p \/ p < from(i) BY <3>1, <2>1, <1>0, SMT
    <3> QED BY <3>1, <3>2, <3>3, <3>4
  <2>13. Ordered(w)
    <3>1. ASSUME NEW i \in DOMAIN w, NEW j \in DOMAIN w, i < j
          PROVE  w[i].key # w[j].key /\ w[i].seenAt <= w[j].seenAt + MaxLag
      <4>1. /\ from(i) \in DOMAIN s /\ from(j) \in DOMAIN s /\ from(i) < from(j)
            /\ w[i] = s[from(i)] /\ w[j] = s[from(j)]
        BY <3>1, <1>0, <2>8, <2>9, <2>10
      <4>2. /\ s[from(i)].key # s[from(j)].key
            /\ s[from(i)].seenAt <= s[from(j)].seenAt + MaxLag
        BY <4>1, Zenon DEF Ordered
      <4> QED BY <4>1, <4>2, Zenon
    <3> QED BY <3>1, Zenon DEF Ordered
  <2> QED BY <2>2, <2>6, <2>11, <2>12, <2>13
<1> QED BY <1>1, <1>2


\* What a cache s becomes when the key is seen at a time.
Remembered(s, key, at) ==
  Trim(Append(Without(Expire(s, at), key), [key |-> key, seenAt |-> at]))

LEMMA AppendKeeps ==
  ASSUME NEW E \in SUBSET Pairs, NEW w \in Seq(E), Ordered(w), NEW e \in E,
         \A i \in 1..Len(w) : w[i].key # e.key /\ w[i].seenAt <= e.seenAt + MaxLag
  PROVE  Ordered(Append(w, e))
<1> DEFINE a == Append(w, e)
<1>1. /\ a \in Seq(E) /\ Len(a) = Len(w) + 1
      /\ \A i \in 1..Len(w) : a[i] = w[i]
      /\ a[Len(w) + 1] = e
  BY AppendProperties
<1> HIDE DEF a
<1>2. /\ DOMAIN a = 1..Len(a) /\ Len(w) \in Nat /\ DOMAIN w = 1..Len(w) /\ Len(a) \in Nat
  BY <1>1, LenProperties
<1>3. ASSUME NEW i \in DOMAIN a, NEW j \in DOMAIN a, i < j
      PROVE  a[i].key # a[j].key /\ a[i].seenAt <= a[j].seenAt + MaxLag
  <2>1. i \in 1..Len(w) /\ a[i] = w[i] BY <1>1, <1>2, <1>3
  <2>2. CASE j \in 1..Len(w)
    <3>1. a[j] = w[j] BY <2>2, <1>1
    <3>2. w[i].key # w[j].key /\ w[i].seenAt <= w[j].seenAt + MaxLag
      BY <2>1, <2>2, <1>2, <1>3, Zenon DEF Ordered
    <3> QED BY <2>1, <3>1, <3>2
  <2>3. CASE j \notin 1..Len(w)
    <3>1. j = Len(w) + 1 BY <2>3, <1>1, <1>2, SMT
    <3>2. a[j] = e BY <3>1, <1>1
    <3> QED BY <2>1, <3>2
  <2> QED BY <2>2, <2>3
<1> QED BY <1>3, Zenon DEF Ordered, a

\* The bound takes out the oldest insertions, and leaves as many as it allows.
LEMMA TrimIs ==
  ASSUME NEW E, NEW s \in Seq(E)
  PROVE  \E k \in 0..Len(s) : /\ Trim(s) = SubSeq(s, k + 1, Len(s))
                              /\ k > 0 => Len(s) - k = MaxEntries
<1>1. Len(s) \in Nat /\ MaxEntries \in Nat \ {0} BY LenProperties, IntakeAssumption
<1>2. CASE Len(s) > MaxEntries
  <2>1. /\ Len(s) - MaxEntries \in 0..Len(s)
        /\ Len(s) - (Len(s) - MaxEntries) = MaxEntries
    BY <1>1, <1>2, SMT
  <2>2. Trim(s) = SubSeq(s, (Len(s) - MaxEntries) + 1, Len(s))
    BY <1>2, Zenon DEF Trim
  <2> QED BY <2>1, <2>2
<1>3. CASE ~(Len(s) > MaxEntries)
  <2>1. Trim(s) = s BY <1>3, Zenon DEF Trim
  <2>2. SubSeq(s, 1, Len(s)) = s BY SubSeqFull
  <2>3. 0 \in 0..Len(s) /\ 0 + 1 = 1 /\ ~(0 > 0) BY <1>1, SMT
  <2> QED BY <2>1, <2>2, <2>3
<1> QED BY <1>2, <1>3


\* Every entry of a cache but the key's own is still there afterwards, or was old, or
\* went because the cache is full of others that are not older than the lag.
LEMMA RememberedIs ==
  ASSUME NEW E \in SUBSET Pairs, NEW s \in Seq(E), Ordered(s), NEW key, NEW at \in Nat,
         [key |-> key, seenAt |-> at] \in E,
         \A i \in 1..Len(s) : s[i].seenAt <= at + MaxLag
  PROVE  LET e == [key |-> key, seenAt |-> at]
             t == Remembered(s, key, at)
         IN
         /\ t \in Seq(E) /\ Ordered(t)
         /\ \E i \in 1..Len(t) : t[i] = e
         /\ \A i \in 1..Len(t) :
              t[i] = e \/ (t[i].key # key /\ \E j \in 1..Len(s) : t[i] = s[j])
         /\ \A j \in 1..Len(s) : s[j].key # key =>
              \/ s[j].seenAt + TTL <= at
              \/ \E i \in 1..Len(t) : t[i] = s[j]
              \/ /\ Len(t) = MaxEntries
                 /\ \A i \in 1..Len(t) : /\ t[i].key # s[j].key
                                         /\ s[j].seenAt <= t[i].seenAt + MaxLag
<1> DEFINE e == [key |-> key, seenAt |-> at]
           f == Expire(s, at)
           w == Without(f, key)
           a == Append(w, e)
           t == Remembered(s, key, at)
<1>0. e \in E /\ e.key = key /\ e.seenAt = at OBVIOUS
<1>1. /\ f \in Seq(E) /\ Ordered(f)
      /\ \A i \in 1..Len(f) : \E j \in 1..Len(s) : f[i] = s[j]
      /\ \A j \in 1..Len(s) : \/ s[j].seenAt + TTL <= at
                              \/ \E i \in 1..Len(f) : f[i] = s[j]
  BY ExpireKeeps
<1>2. t = Trim(a) BY Zenon DEF Remembered
<1> HIDE DEF f
<1>3. /\ w \in Seq(E) /\ Ordered(w)
      /\ \A i \in 1..Len(w) : w[i].key # key /\ \E j \in 1..Len(f) : w[i] = f[j]
      /\ \A j \in 1..Len(f) : f[j].key # key => \E i \in 1..Len(w) : w[i] = f[j]
  BY <1>1, WithoutKeeps
<1> HIDE DEF w, e, t
<1>4. /\ a \in Seq(E) /\ Len(a) = Len(w) + 1
      /\ \A i \in 1..Len(w) : a[i] = w[i]
      /\ a[Len(w) + 1] = e
  BY <1>0, <1>3, AppendProperties
<1>5. Ordered(a)
  <2>1. ASSUME NEW i \in 1..Len(w)
        PROVE  w[i].key # e.key /\ w[i].seenAt <= e.seenAt + MaxLag
    <3>1. w[i].key # key /\ \E j \in 1..Len(s) : w[i] = s[j] BY <1>1, <1>3
    <3> QED BY <3>1, <1>0
  <2> QED BY <2>1, <1>0, <1>3, AppendKeeps
<1> HIDE DEF a
<1>6. PICK k \in 0..Len(a) : /\ t = SubSeq(a, k + 1, Len(a))
                             /\ k > 0 => Len(a) - k = MaxEntries
  BY <1>2, <1>4, TrimIs
<1>7. /\ t \in Seq(E) /\ Len(t) = Len(a) - k /\ Ordered(t)
      /\ \A i \in 1..Len(t) : k + i \in 1..Len(a) /\ t[i] = a[k + i]
  BY <1>4, <1>5, <1>6, SuffixKeeps
<1>8. /\ Len(w) \in Nat /\ Len(a) \in Nat /\ Len(t) \in Nat /\ DOMAIN a = 1..Len(a)
      /\ MaxEntries \in Nat \ {0} /\ k \in 0..Len(a)
      /\ Len(t) = Len(a) - k /\ Len(a) = Len(w) + 1
      /\ k > 0 => Len(a) - k = MaxEntries
  BY <1>3, <1>4, <1>6, <1>7, LenProperties, IntakeAssumption
<1>9. \E i \in 1..Len(t) : t[i] = e
  <2>1. Len(t) \in 1..Len(t) /\ k + Len(t) = Len(w) + 1
    BY <1>8, SMT
  <2> QED BY <2>1, <1>4, <1>7
<1>10. ASSUME NEW i \in 1..Len(t)
       PROVE  t[i] = e \/ (t[i].key # key /\ \E j \in 1..Len(s) : t[i] = s[j])
  <2>0. k + i \in 1..Len(a) BY <1>7
  <2>1. t[i] = a[k + i] BY <1>7
  <2>2. CASE k + i \in 1..Len(w)
    <3>1. t[i] = w[k + i] BY <2>1, <2>2, <1>4
    <3>2. w[k + i].key # key /\ \E j \in 1..Len(s) : w[k + i] = s[j]
      <4>1. w[k + i].key # key /\ \E j \in 1..Len(f) : w[k + i] = f[j]
        BY <2>2, <1>3, Zenon
      <4> QED BY <4>1, <1>1, Zenon
    <3> QED BY <3>1, <3>2
  <2>3. CASE k + i \notin 1..Len(w)
    <3>1. k + i = Len(w) + 1 BY <2>0, <2>3, <1>8, SMT
    <3> QED BY <3>1, <2>1, <1>4
  <2> QED BY <2>2, <2>3
<1>11. ASSUME NEW j \in 1..Len(s), s[j].key # key, ~(s[j].seenAt + TTL <= at),
              ~ \E i \in 1..Len(t) : t[i] = s[j]
       PROVE  /\ Len(t) = MaxEntries
              /\ \A i \in 1..Len(t) : /\ t[i].key # s[j].key
                                      /\ s[j].seenAt <= t[i].seenAt + MaxLag
  <2>1. PICK m \in 1..Len(w) : w[m] = s[j]
    <3>1. PICK i \in 1..Len(f) : f[i] = s[j] BY <1>1, <1>11, Zenon
    <3>2. f[i].key # key BY <3>1, <1>11, Zenon
    <3> QED BY <3>1, <3>2, <1>3, Zenon
  <2>2. m \in 1..Len(a) BY <1>8, SMT
  <2>a. a[m] = s[j] BY <2>1, <1>4
  <2>3. m <= k
    <3>1. CASE m > k
      <4>1. m - k \in 1..Len(t) /\ k + (m - k) = m BY <3>1, <2>2, <1>8, SMT
      <4>2. t[m - k] = s[j] BY <4>1, <2>a, <1>7
      <4> QED BY <4>1, <4>2, <1>11
    <3> QED BY <3>1, <2>2, <1>8, SMT
  <2>4. Len(t) = MaxEntries
    <3>1. k > 0 BY <2>2, <2>3, <1>8, SMT
    <3> QED BY <3>1, <1>6, <1>7
  <2>5. ASSUME NEW i \in 1..Len(t)
        PROVE  t[i].key # s[j].key /\ s[j].seenAt <= t[i].seenAt + MaxLag
    <3>1. k + i \in 1..Len(a) /\ t[i] = a[k + i] BY <1>7
    <3>2. m < k + i BY <2>2, <2>3, <1>8, SMT
    <3>3. a[m].key # a[k + i].key /\ a[m].seenAt <= a[k + i].seenAt + MaxLag
      BY <3>1, <3>2, <2>2, <1>5, <1>8, Zenon DEF Ordered
    <3> QED BY <3>1, <3>3, <2>a
  <2> QED BY <2>4, <2>5
<1> HIDE DEF t
<1>12. /\ t \in Seq(E) /\ Ordered(t)
       /\ \E i \in 1..Len(t) : t[i] = e
       /\ \A i \in 1..Len(t) :
            t[i] = e \/ (t[i].key # key /\ \E j \in 1..Len(s) : t[i] = s[j])
       /\ \A j \in 1..Len(s) : s[j].key # key =>
            \/ s[j].seenAt + TTL <= at
            \/ \E i \in 1..Len(t) : t[i] = s[j]
            \/ /\ Len(t) = MaxEntries
               /\ \A i \in 1..Len(t) : /\ t[i].key # s[j].key
                                       /\ s[j].seenAt <= t[i].seenAt + MaxLag
  BY <1>7, <1>9, <1>10, <1>11
<1> QED BY <1>12, Zenon DEF t, e

\* Whether the key is news: it is not among the entries that are young enough.
LEMMA NewsIs ==
  ASSUME NEW E \in SUBSET Pairs, NEW s \in Seq(E), Ordered(s), NEW key, NEW at \in Nat
  PROVE  IF Holds(Expire(s, at), key)
         THEN \E j \in 1..Len(s) : s[j].key = key /\ at < s[j].seenAt + TTL + MaxLag
         ELSE \A j \in 1..Len(s) : s[j].key = key => s[j].seenAt + TTL <= at
<1> DEFINE f == Expire(s, at)
<1>1. /\ f \in Seq(E)
      /\ \A i \in 1..Len(f) : /\ \E j \in 1..Len(s) : f[i] = s[j]
                              /\ at < f[i].seenAt + TTL + MaxLag
      /\ \A j \in 1..Len(s) : \/ s[j].seenAt + TTL <= at
                              \/ \E i \in 1..Len(f) : f[i] = s[j]
  BY ExpireKeeps
<1> HIDE DEF f
<1>2. DOMAIN f = 1..Len(f) BY <1>1, LenProperties
<1>3. Holds(f, key) <=> \E i \in 1..Len(f) : f[i].key = key BY <1>2, Zenon DEF Holds
<1>4. CASE Holds(f, key)
  <2>1. PICK i \in 1..Len(f) : f[i].key = key BY <1>3, <1>4
  <2>2. PICK j \in 1..Len(s) : f[i] = s[j] BY <1>1
  <2>3. at < f[i].seenAt + TTL + MaxLag BY <1>1
  <2>4. s[j].key = key /\ at < s[j].seenAt + TTL + MaxLag BY <2>1, <2>2, <2>3
  <2> QED BY <2>4, <1>4 DEF f
<1>5. CASE ~Holds(f, key)
  <2>1. ASSUME NEW j \in 1..Len(s), s[j].key = key PROVE s[j].seenAt + TTL <= at
    <3>1. ~ \E i \in 1..Len(f) : f[i] = s[j] BY <1>3, <1>5, <2>1
    <3> QED BY <3>1, <1>1
  <2> QED BY <2>1, <1>5 DEF f
<1> QED BY <1>4, <1>5


\* The cache of a kind, as Since has it.
LEMMA SameCache ==
  ASSUME NEW c \in Caches, NEW key \in KeysOf(c), NEW k \in Keys
  PROVE  (IF k[1] \in {"foreign", "unpaired"} THEN k[1] ELSE "log")
           = (IF key[1] \in {"foreign", "unpaired"} THEN key[1] ELSE "log")
         <=> k \in KeysOf(c)
<1>0. k[1] # "log"
  BY IntakeAssumption, SMT DEF Keys
<1>1. CASE c = "hosts" BY <1>0, <1>1, SMT DEF KeysOf
<1>2. CASE c = "pairings" BY <1>0, <1>2, SMT DEF KeysOf
<1>3. CASE c = "logs" BY <1>0, <1>3, SMT DEF KeysOf
<1> QED BY <1>1, <1>2, <1>3 DEF Caches

LEMMA SinceIs ==
  ASSUME NEW c \in Caches, NEW key \in KeysOf(c)
  PROVE  /\ Since(key) = {k \in KeysOf(c) \ {key} :
                            heard[k] # None /\ heard[k] >= heard[key] - MaxLag}
         /\ Since(key)' = {k \in KeysOf(c) \ {key} :
                            heard'[k] # None /\ heard'[k] >= heard'[key] - MaxLag}
<1> DEFINE Same(k) == (IF k[1] \in {"foreign", "unpaired"} THEN k[1] ELSE "log")
                        = (IF key[1] \in {"foreign", "unpaired"} THEN key[1] ELSE "log")
<1>1. \A k \in Keys : Same(k) <=> k \in KeysOf(c) BY SameCache
<1>2. KeysOf(c) \subseteq Keys BY DEF KeysOf
<1>3. Since(key) = {k \in Keys \ {key} : /\ Same(k)
                                         /\ heard[k] # None /\ heard[k] >= heard[key] - MaxLag}
  BY Zenon DEF Since
<1>4. Since(key)' = {k \in Keys \ {key} : /\ Same(k)
                                          /\ heard'[k] # None
                                          /\ heard'[k] >= heard'[key] - MaxLag}
  BY Zenon DEF Since
<1> HIDE DEF Same
<1>5. Since(key) = {k \in KeysOf(c) \ {key} :
                      heard[k] # None /\ heard[k] >= heard[key] - MaxLag}
  BY <1>1, <1>2, <1>3, Zenon
<1>6. Since(key)' = {k \in KeysOf(c) \ {key} :
                      heard'[k] # None /\ heard'[k] >= heard'[key] - MaxLag}
  BY <1>1, <1>2, <1>4, Zenon
<1> QED BY <1>5, <1>6

LEMMA CachesAreApart ==
  ASSUME NEW c \in Caches, NEW d \in Caches, NEW k \in KeysOf(c), k \in KeysOf(d)
  PROVE  c = d
<1> DEFINE CacheOf == IF k[1] = "foreign" THEN "hosts"
                      ELSE IF k[1] = "unpaired" THEN "pairings" ELSE "logs"
<1>1. ASSUME NEW b \in Caches, k \in KeysOf(b) PROVE b = CacheOf
  <2>1. CASE b = "hosts" BY <1>1, <2>1 DEF KeysOf
  <2>2. CASE b = "pairings" BY <1>1, <2>2 DEF KeysOf
  <2>3. CASE b = "logs" BY <1>1, <2>3 DEF KeysOf
  <2> QED BY <2>1, <2>2, <2>3 DEF Caches
<1> HIDE DEF CacheOf
<1> QED BY <1>1


\* What a key's own remembering does to the history.
LEMMA HeardKeeps ==
  ASSUME now \in Nat, now' = now, HeardType,
         NEW key \in Keys, NEW at \in Nat, at <= now,
         heard' = [heard EXCEPT ![key] = at]
  PROVE  /\ HeardType' /\ heard'[key] = at
         /\ \A k \in Keys : k # key => heard'[k] = heard[k]
<1>1. /\ heard' \in [Keys -> Nat \cup {None}] /\ heard'[key] = at
      /\ \A k \in Keys : k # key => heard'[k] = heard[k]
  BY DEF HeardType
<1>2. \A k \in Keys : heard'[k] # None => heard'[k] <= now' BY <1>1 DEF HeardType
<1>3. IsFiniteSet({k \in Keys : heard'[k] # None})
  <2> DEFINE old == {k \in Keys : heard[k] # None}
             new == {k \in Keys : heard'[k] # None}
  <2>1. new \in SUBSET (old \cup {key}) BY <1>1
  <2>2. IsFiniteSet(old) BY DEF HeardType
  <2> HIDE DEF old, new
  <2>3. IsFiniteSet(old \cup {key}) BY <2>2, FS_AddElement
  <2>4. IsFiniteSet(new) BY <2>1, <2>3, FS_Subset
  <2> QED BY <2>4 DEF new
<1> QED BY <1>1, <1>2, <1>3 DEF HeardType

\* The keys that were seen since another stay so: the one that is seen now is later
\* than any by more than the lag.
LEMMA SinceGrows ==
  ASSUME now \in Nat, HeardType, HeardType',
         NEW key \in Keys, NEW at \in Nat, now <= at + MaxLag, heard'[key] = at,
         \A k \in Keys : k # key => heard'[k] = heard[k],
         NEW d \in Caches, NEW x \in KeysOf(d), x # key, heard[x] # None
  PROVE  /\ IsFiniteSet(Since(x)') /\ Cardinality(Since(x)) <= Cardinality(Since(x)')
<1>1. x \in Keys /\ KeysOf(d) \subseteq Keys BY DEF KeysOf
<1>2. heard[x] \in Nat /\ heard'[x] = heard[x] /\ heard[x] <= now
  BY <1>1 DEF HeardType
<1>3. MaxLag \in Nat /\ None \notin Nat BY IntakeAssumption
<1>4. Since(x) \subseteq Since(x)'
  <2>1. SUFFICES ASSUME NEW k \in Since(x) PROVE k \in Since(x)' OBVIOUS
  <2>2. /\ k \in KeysOf(d) \ {x} /\ heard[k] # None /\ heard[k] >= heard[x] - MaxLag
    BY SinceIs
  <2>3. heard'[k] # None /\ heard'[k] >= heard'[x] - MaxLag
    <3>1. CASE k = key
      <4>1. at >= heard[x] - MaxLag BY <1>2, <1>3, SMT
      <4> QED BY <3>1, <4>1, <1>2, <1>3
    <3>2. CASE k # key BY <3>2, <2>2, <1>1, <1>2
    <3> QED BY <3>1, <3>2
  <2> QED BY <2>2, <2>3, SinceIs
<1>5. Since(x)' \in SUBSET {k \in Keys : heard'[k] # None} BY <1>1, SinceIs
<1>6. IsFiniteSet({k \in Keys : heard'[k] # None}) BY DEF HeardType
<1>7. IsFiniteSet(Since(x)') BY <1>5, <1>6, FS_Subset, Zenon
<1> QED BY <1>4, <1>7, FS_Subset


\* A cache that is full of other keys, none older than the lag, is enough of them.
LEMMA CrowdIsSince ==
  ASSUME HeardType',
         NEW c \in Caches, NEW x \in KeysOf(c), heard'[x] \in Nat,
         NEW t \in Seq(Entries(c)), Ordered(t), Len(t) = MaxEntries,
         \A i \in 1..Len(t) : heard'[t[i].key] = t[i].seenAt,
         \A i \in 1..Len(t) : t[i].key # x /\ heard'[x] <= t[i].seenAt + MaxLag
  PROVE  Cardinality(Since(x)') >= MaxEntries
<1>1. /\ Len(t) \in Nat /\ DOMAIN t = 1..Len(t)
      /\ \A i \in 1..Len(t) : t[i].key \in KeysOf(c) /\ t[i].seenAt \in Nat
  <2>1. Len(t) \in Nat /\ DOMAIN t = 1..Len(t) BY LenProperties
  <2>2. \A i \in 1..Len(t) : t[i] \in Entries(c) BY ElementOfSeq, Zenon
  <2>3. \A e \in Entries(c) : e.key \in KeysOf(c) /\ e.seenAt \in Nat BY DEF Entries
  <2> QED BY <2>1, <2>2, <2>3, Zenon
<1>2. MaxLag \in Nat /\ None \notin Nat /\ MaxEntries \in Nat \ {0} BY IntakeAssumption
<1>3. ASSUME NEW i \in 1..Len(t) PROVE t[i].key \in Since(x)'
  <2>1. /\ t[i].key \in KeysOf(c) \ {x} /\ heard'[t[i].key] = t[i].seenAt
        /\ t[i].seenAt \in Nat /\ heard'[x] <= t[i].seenAt + MaxLag
    BY <1>1
  <2>2. t[i].seenAt >= heard'[x] - MaxLag BY <2>1, <1>2, SMT
  <2>3. heard'[t[i].key] # None BY <2>1, <1>2
  <2> QED BY <2>1, <2>2, <2>3, SinceIs
<1> DEFINE g == [i \in 1..Len(t) |-> t[i].key]
<1>4. g \in Injection(1..Len(t), Since(x)')
  <2>1. g \in [1..Len(t) -> Since(x)'] BY <1>3
  <2>2. ASSUME NEW i \in 1..Len(t), NEW j \in 1..Len(t), i # j PROVE g[i] # g[j]
    <3>1. CASE i < j
      <4>1. t[i].key # t[j].key BY <3>1, <1>1, Zenon DEF Ordered
      <4> QED BY <4>1
    <3>2. CASE j < i
      <4>1. t[j].key # t[i].key BY <3>2, <1>1, Zenon DEF Ordered
      <4> QED BY <4>1
    <3>3. i < j \/ j < i BY <2>2, <1>1, SMT
    <3> QED BY <3>1, <3>2, <3>3
  <2> HIDE DEF g
  <2> QED BY <2>1, <2>2, Zenon DEF Injection, IsInjective
<1> HIDE DEF g
<1>5. IsFiniteSet(Since(x)')
  <2>0. KeysOf(c) \subseteq Keys BY DEF KeysOf
  <2>1. Since(x)' \in SUBSET {k \in Keys : heard'[k] # None} BY <2>0, SinceIs
  <2>2. IsFiniteSet({k \in Keys : heard'[k] # None}) BY DEF HeardType
  <2> QED BY <2>1, <2>2, FS_Subset, Zenon
<1>6. Cardinality(1..Len(t)) <= Cardinality(Since(x)') BY <1>4, <1>5, FS_Injection, Zenon
<1>7. Cardinality(1..Len(t)) = MaxEntries
  <2>0. 1 \in Int /\ Len(t) \in Int BY <1>1, SMT
  <2>1. Cardinality(1..Len(t)) = IF 1 > Len(t) THEN 0 ELSE Len(t) - 1 + 1
    BY <2>0, FS_Interval, Zenon
  <2> QED BY <2>1, <1>1, <1>2, SMT
<1>8. Cardinality(Since(x)') \in Nat BY <1>5, FS_CardinalityType
<1> QED BY <1>2, <1>6, <1>7, <1>8, SMT


LEMMA SinceIsFinite ==
  ASSUME HeardType, NEW d \in Caches, NEW k \in KeysOf(d)
  PROVE  IsFiniteSet(Since(k))
<1>1. KeysOf(d) \subseteq Keys BY DEF KeysOf
<1>2. Since(k) \in SUBSET {x \in Keys : heard[x] # None} BY <1>1, SinceIs
<1>3. IsFiniteSet({x \in Keys : heard[x] # None}) BY DEF HeardType
<1> QED BY <1>2, <1>3, FS_Subset, Zenon

LEMMA CardinalityGrows ==
  ASSUME NEW S, NEW T, IsFiniteSet(S), IsFiniteSet(T), Cardinality(S) <= Cardinality(T),
         Cardinality(S) >= MaxEntries
  PROVE  Cardinality(T) >= MaxEntries
<1>1. Cardinality(S) \in Nat /\ Cardinality(T) \in Nat BY FS_CardinalityType
<1>2. MaxEntries \in Nat BY IntakeAssumption
<1> QED BY <1>1, <1>2, SMT

\* What the entries of a cache say of the history.
LEMMA EntryIs ==
  ASSUME NEW c \in Caches, CacheInv(c)
  PROVE  /\ cache[c] \in Seq(Entries(c)) /\ Ordered(cache[c])
         /\ Len(cache[c]) \in Nat /\ DOMAIN cache[c] = 1..Len(cache[c])
         /\ \A i \in 1..Len(cache[c]) :
              /\ cache[c][i] \in Entries(c)
              /\ cache[c][i].key \in KeysOf(c) /\ cache[c][i].seenAt \in Nat
              /\ heard[cache[c][i].key] = cache[c][i].seenAt
<1>1. /\ cache[c] \in Seq(Entries(c)) /\ Ordered(cache[c])
      /\ \A i \in 1..Len(cache[c]) : heard[cache[c][i].key] = cache[c][i].seenAt
  BY DEF CacheInv
<1> DEFINE s == cache[c]
<1> HIDE DEF s
<1>2. s \in Seq(Entries(c)) BY <1>1 DEF s
<1>3. Len(s) \in Nat /\ DOMAIN s = 1..Len(s) BY <1>2, LenProperties
<1>4. \A i \in 1..Len(s) : s[i] \in Entries(c) BY <1>2, ElementOfSeq, Zenon
<1>5. \A e \in Entries(c) : e.key \in KeysOf(c) /\ e.seenAt \in Nat BY DEF Entries
<1> QED BY <1>1, <1>3, <1>4, <1>5, Zenon DEF s

\* A key is remembered: the invariant of its own cache.
LEMMA RememberKeepsCache ==
  ASSUME now \in Nat, now' = now, DOMAIN cache = Caches, HeardType,
         NEW c \in Caches, CacheInv(c), NEW key \in KeysOf(c),
         NEW at \in Nat, at <= now, now <= at + MaxLag, Remember(c, key, at)
  PROVE  CacheInv(c)'
<1> DEFINE s == cache[c]
           e == [key |-> key, seenAt |-> at]
           t == Remembered(s, key, at)
<1>1. MaxLag \in Nat /\ TTL \in Nat /\ None \notin Nat BY IntakeAssumption
<1>2. /\ s \in Seq(Entries(c)) /\ Ordered(s) /\ Len(s) \in Nat /\ DOMAIN s = 1..Len(s)
      /\ \A i \in 1..Len(s) : /\ s[i] \in Entries(c)
                              /\ s[i].key \in KeysOf(c) /\ s[i].seenAt \in Nat
                              /\ heard[s[i].key] = s[i].seenAt
  BY EntryIs
<1>3. key \in Keys /\ KeysOf(c) \subseteq Keys BY DEF KeysOf
<1>4. cache'[c] = t /\ heard' = [heard EXCEPT ![key] = at]
  BY Zenon DEF Remember, Remembered
<1>5. /\ HeardType' /\ heard'[key] = at
      /\ \A k \in Keys : k # key => heard'[k] = heard[k]
  BY <1>3, <1>4, HeardKeeps
<1>6. \A i \in 1..Len(s) : s[i].seenAt <= now /\ s[i].seenAt <= at + MaxLag
  <2>1. SUFFICES ASSUME NEW i \in 1..Len(s)
                 PROVE s[i].seenAt <= now /\ s[i].seenAt <= at + MaxLag
    OBVIOUS
  <2>2. /\ s[i].key \in Keys /\ s[i].seenAt \in Nat /\ heard[s[i].key] = s[i].seenAt
    BY <1>2, <1>3
  <2>3. s[i].seenAt <= now BY <2>2, <1>1 DEF HeardType
  <2> QED BY <2>2, <2>3, <1>1, SMT
<1>7. e \in Entries(c) /\ Entries(c) \in SUBSET Pairs BY <1>3 DEF Entries, Pairs
<1> HIDE DEF s, e, t
<1>8. /\ t \in Seq(Entries(c)) /\ Ordered(t)
      /\ \E i \in 1..Len(t) : t[i] = e
      /\ \A i \in 1..Len(t) :
           t[i] = e \/ (t[i].key # key /\ \E j \in 1..Len(s) : t[i] = s[j])
      /\ \A j \in 1..Len(s) : s[j].key # key =>
           \/ s[j].seenAt + TTL <= at
           \/ \E i \in 1..Len(t) : t[i] = s[j]
           \/ /\ Len(t) = MaxEntries
              /\ \A i \in 1..Len(t) : /\ t[i].key # s[j].key
                                      /\ s[j].seenAt <= t[i].seenAt + MaxLag
  <2>1. s \in Seq(Entries(c)) /\ Ordered(s) BY <1>2
  <2>2. \A i \in 1..Len(s) : s[i].seenAt <= at + MaxLag BY <1>6
  <2> QED BY <2>1, <2>2, <1>7, RememberedIs DEF e, t
<1>9. e.key = key /\ e.seenAt = at BY DEF e
<1>10. Len(t) \in Nat /\ DOMAIN t = 1..Len(t) BY <1>8, LenProperties
<1>11. ASSUME NEW i \in 1..Len(t) PROVE heard'[t[i].key] = t[i].seenAt
  <2>1. CASE t[i] = e BY <2>1, <1>5, <1>9
  <2>2. CASE t[i].key # key /\ \E j \in 1..Len(s) : t[i] = s[j]
    <3>1. PICK j \in 1..Len(s) : t[i] = s[j] BY <2>2
    <3>2. s[j].key \in Keys /\ heard[s[j].key] = s[j].seenAt BY <1>2, <1>3
    <3> QED BY <2>2, <3>1, <3>2, <1>5
  <2> QED BY <2>1, <2>2, <1>8
<1>12. ASSUME NEW k \in KeysOf(c), heard'[k] # None,
              ~ \E i \in 1..Len(t) : t[i].key = k
       PROVE  now >= heard'[k] + TTL \/ Cardinality(Since(k)') >= MaxEntries
  <2>1. k # key BY <1>8, <1>9, <1>12
  <2>2. /\ k \in Keys /\ heard'[k] = heard[k] /\ heard[k] # None /\ heard[k] \in Nat
    BY <2>1, <1>3, <1>5, <1>12 DEF HeardType
  <2>3. CASE \E j \in 1..Len(s) : s[j].key = k
    <3>1. PICK j \in 1..Len(s) : s[j].key = k BY <2>3
    <3>2. heard[k] = s[j].seenAt BY <3>1, <1>2
    <3>3. ~ \E i \in 1..Len(t) : t[i] = s[j] BY <3>1, <1>12
    <3>4. CASE s[j].seenAt + TTL <= at
      <4>1. heard[k] + TTL <= at BY <3>2, <3>4
      <4> QED BY <4>1, <2>2, <1>1, SMT
    <3>5. CASE ~(s[j].seenAt + TTL <= at)
      <4>1. /\ Len(t) = MaxEntries
            /\ \A i \in 1..Len(t) : t[i].key # k /\ heard'[k] <= t[i].seenAt + MaxLag
        BY <3>1, <3>2, <3>3, <3>5, <2>1, <2>2, <1>8
      <4> QED BY <4>1, <2>2, <1>5, <1>8, <1>11, CrowdIsSince
    <3> QED BY <3>4, <3>5
  <2>4. CASE ~ \E j \in 1..Len(s) : s[j].key = k
    <3>1. ~Holds(cache[c], k) BY <2>4, <1>2 DEF Holds, s
    <3>2. now >= heard[k] + TTL \/ Cardinality(Since(k)) >= MaxEntries
      BY <3>1, <2>2 DEF CacheInv, MissingIsOld
    <3>3. /\ IsFiniteSet(Since(k)') /\ Cardinality(Since(k)) <= Cardinality(Since(k)')
      BY <2>1, <2>2, <1>3, <1>5, SinceGrows
    <3>4. CASE now >= heard[k] + TTL BY <3>4, <2>2
    <3>5. CASE Cardinality(Since(k)) >= MaxEntries
      BY <3>3, <3>5, <2>2, SinceIsFinite, CardinalityGrows
    <3> QED BY <3>2, <3>4, <3>5
  <2> QED BY <2>3, <2>4
<1>13. MissingIsOld(c)'
  <2>1. \A k \in KeysOf(c) : Holds(t, k) <=> \E i \in 1..Len(t) : t[i].key = k
    BY <1>10, Zenon DEF Holds
  <2>2. \A k \in KeysOf(c) :
          heard'[k] # None /\ ~Holds(t, k) =>
            now >= heard'[k] + TTL \/ Cardinality(Since(k)') >= MaxEntries
    BY <2>1, <1>12, Zenon
  <2>3. \A k \in KeysOf(c) :
          heard'[k] # None /\ ~Holds(cache'[c], k) =>
            now' >= heard'[k] + TTL \/ Cardinality(Since(k)') >= MaxEntries
    BY <2>2, <1>4
  <2> QED BY <2>3, Zenon DEF MissingIsOld
<1> QED BY <1>4, <1>8, <1>11, <1>13 DEF CacheInv


\* A key is remembered: the invariant of another cache.
LEMMA RememberKeepsOthers ==
  ASSUME now \in Nat, now' = now, DOMAIN cache = Caches, HeardType,
         NEW c \in Caches, NEW key \in KeysOf(c),
         NEW at \in Nat, at <= now, now <= at + MaxLag, Remember(c, key, at),
         NEW d \in Caches, d # c, CacheInv(d)
  PROVE  CacheInv(d)'
<1>1. KeysOf(c) \subseteq Keys /\ KeysOf(d) \subseteq Keys BY DEF KeysOf
<1>2. cache'[d] = cache[d] /\ heard' = [heard EXCEPT ![key] = at] BY DEF Remember
<1>3. /\ HeardType' /\ heard'[key] = at
      /\ \A k \in Keys : k # key => heard'[k] = heard[k]
  BY <1>1, <1>2, HeardKeeps
<1>4. \A k \in KeysOf(d) : k # key /\ heard'[k] = heard[k]
  BY <1>1, <1>3, CachesAreApart
<1> DEFINE s == cache[d]
<1>5. /\ s \in Seq(Entries(d)) /\ Ordered(s) /\ DOMAIN s = 1..Len(s)
      /\ \A i \in 1..Len(s) : s[i].key \in KeysOf(d) /\ heard[s[i].key] = s[i].seenAt
  BY EntryIs
<1> HIDE DEF s
<1>6. \A i \in 1..Len(s) : heard'[s[i].key] = s[i].seenAt BY <1>4, <1>5
<1>7. ASSUME NEW k \in KeysOf(d), heard'[k] # None, ~Holds(s, k)
      PROVE  now >= heard'[k] + TTL \/ Cardinality(Since(k)') >= MaxEntries
  <2>1. k # key /\ heard'[k] = heard[k] /\ heard[k] # None BY <1>4, <1>7
  <2>2. now >= heard[k] + TTL \/ Cardinality(Since(k)) >= MaxEntries
    BY <1>7, <2>1 DEF CacheInv, MissingIsOld, s
  <2>3. IsFiniteSet(Since(k)') /\ Cardinality(Since(k)) <= Cardinality(Since(k)')
    BY <2>1, <1>1, <1>3, SinceGrows
  <2>4. CASE Cardinality(Since(k)) >= MaxEntries
    BY <2>3, <2>4, SinceIsFinite, CardinalityGrows
  <2> QED BY <2>1, <2>2, <2>4
<1>8. MissingIsOld(d)'
  <2>1. \A k \in KeysOf(d) :
          heard'[k] # None /\ ~Holds(cache'[d], k) =>
            now' >= heard'[k] + TTL \/ Cardinality(Since(k)') >= MaxEntries
    BY <1>2, <1>7 DEF s
  <2> QED BY <2>1, Zenon DEF MissingIsOld
<1> QED BY <1>2, <1>5, <1>6, <1>8 DEF CacheInv, s

LEMMA RememberKeepsCaches ==
  ASSUME now \in Nat, now' = now, CachesInv, NEW c \in Caches, NEW key \in KeysOf(c),
         NEW at \in Nat, at <= now, now <= at + MaxLag, Remember(c, key, at)
  PROVE  CachesInv'
<1>1. DOMAIN cache = Caches /\ HeardType /\ \A d \in Caches : CacheInv(d)
  BY DEF CachesInv
<1>2. CacheInv(c)' BY <1>1, RememberKeepsCache
<1>3. ASSUME NEW d \in Caches, d # c PROVE CacheInv(d)'
  BY <1>1, <1>3, RememberKeepsOthers
<1>4. DOMAIN cache' = Caches BY <1>1 DEF Remember
<1>5. HeardType'
  <2>1. key \in Keys /\ heard' = [heard EXCEPT ![key] = at] BY DEF Remember, KeysOf
  <2> QED BY <2>1, <1>1, HeardKeeps
<1>6. \A d \in Caches : CacheInv(d)' BY <1>2, <1>3
<1> QED BY <1>4, <1>5, <1>6 DEF CachesInv

\* Whether it is logged: as RejectionsAreLogged has it.
LEMMA RememberLogsNews ==
  ASSUME now \in Nat, CachesInv, NEW c \in Caches, NEW key \in KeysOf(c),
         NEW at \in Nat, at <= now, now <= at + MaxLag, Remember(c, key, at)
  PROVE  IF logged'
         THEN \/ heard[key] = None
              \/ at >= heard[key] + TTL - MaxLag
              \/ Cardinality(Since(key)) >= MaxEntries
         ELSE heard[key] # None /\ at < heard[key] + TTL + MaxLag
<1> DEFINE s == cache[c]
<1>1. MaxLag \in Nat /\ TTL \in Nat /\ None \notin Nat BY IntakeAssumption
<1>2. /\ s \in Seq(Entries(c)) /\ Ordered(s) /\ DOMAIN s = 1..Len(s)
      /\ \A i \in 1..Len(s) : s[i].seenAt \in Nat /\ heard[s[i].key] = s[i].seenAt
  BY EntryIs DEF CachesInv
<1>3. Entries(c) \in SUBSET Pairs /\ key \in Keys BY DEF Entries, Pairs, KeysOf
<1>4. logged' = ~Holds(Expire(s, at), key) BY Zenon DEF Remember
<1>5. HeardType /\ MissingIsOld(c) BY DEF CachesInv, CacheInv
<1>6. Holds(s, key) <=> \E j \in 1..Len(s) : s[j].key = key BY <1>2, Zenon DEF Holds
<1>7. heard[key] # None => heard[key] \in Nat BY <1>3, <1>5 DEF HeardType
<1>8. heard[key] # None /\ ~Holds(s, key) =>
        now >= heard[key] + TTL \/ Cardinality(Since(key)) >= MaxEntries
  BY <1>5, Zenon DEF MissingIsOld
<1> HIDE DEF s
<1>9. CASE Holds(Expire(s, at), key)
  <2>1. PICK j \in 1..Len(s) : s[j].key = key /\ at < s[j].seenAt + TTL + MaxLag
    BY <1>2, <1>3, <1>9, NewsIs
  <2>2. heard[key] # None /\ at < heard[key] + TTL + MaxLag BY <2>1, <1>1, <1>2
  <2> QED BY <2>2, <1>4, <1>9
<1>10. CASE ~Holds(Expire(s, at), key)
  <2>1. \A j \in 1..Len(s) : s[j].key = key => s[j].seenAt + TTL <= at
    BY <1>2, <1>3, <1>10, NewsIs
  <2>2. CASE Holds(s, key)
    <3>1. PICK j \in 1..Len(s) : s[j].key = key BY <1>6, <2>2
    <3>2. heard[key] = s[j].seenAt /\ s[j].seenAt \in Nat /\ s[j].seenAt + TTL <= at
      BY <3>1, <2>1, <1>2
    <3>3. heard[key] \in Nat /\ heard[key] + TTL <= at BY <3>2
    <3>4. at >= heard[key] + TTL - MaxLag BY <3>3, <1>1, SMT
    <3> QED BY <3>4, <1>4, <1>10
  <2>3. CASE ~Holds(s, key) /\ heard[key] # None /\ now >= heard[key] + TTL
    <3>1. heard[key] \in Nat /\ now >= heard[key] + TTL BY <2>3, <1>7
    <3>2. at >= heard[key] + TTL - MaxLag BY <3>1, <1>1, SMT
    <3> QED BY <3>2, <1>4, <1>10
  <2> QED BY <2>2, <2>3, <1>4, <1>8, <1>10
<1> QED BY <1>9, <1>10


-----------------------------------------------------------------------------
LEMMA InitLog == Init => LogInv
<1> SUFFICES ASSUME Init PROVE LogInv OBVIOUS
<1>1. JobsInv BY DEF Init, JobsInv, Sorted, Recent, Idle
<1>2. HeardType
  <2>1. \A k \in Keys : heard[k] = None BY DEF Init
  <2>2. heard \in [Keys -> Nat \cup {None}] BY DEF Init
  <2>3. {k \in Keys : heard[k] # None} = {} BY <2>1
  <2>4. IsFiniteSet({k \in Keys : heard[k] # None}) BY <2>3, FS_EmptySet
  <2> QED BY <2>1, <2>2, <2>4 DEF HeardType
<1>3. ASSUME NEW c \in Caches PROVE CacheInv(c)
  <2>1. cache[c] = <<>> /\ <<>> \in Seq(Entries(c)) BY <1>3 DEF Init
  <2>2. Len(cache[c]) = 0 /\ DOMAIN cache[c] = {} BY <2>1
  <2>3. Ordered(cache[c]) BY <2>2 DEF Ordered
  <2>4. \A k \in KeysOf(c) : heard[k] = None BY DEF Init, KeysOf
  <2>5. MissingIsOld(c) BY <2>4 DEF MissingIsOld
  <2> QED BY <2>1, <2>2, <2>3, <2>5 DEF CacheInv
<1>4. CachesInv BY <1>2, <1>3 DEF CachesInv, Init
<1> QED BY <1>1, <1>4, InitCounters DEF LogInv

LEMMA JobsKeep ==
  ASSUME CountersInv, JobsInv, NEW t \in Threads, NEW j,
         job' = [job EXCEPT ![t] = j], Sorted(j), Recent(j, now), now' = now
  PROVE  JobsInv'
<1>1. ASSUME NEW u \in Threads PROVE Sorted(job'[u]) /\ Recent(job'[u], now')
  <2>1. CASE u = t
    <3>1. job'[u] = j BY <2>1 DEF CountersInv, CountersType
    <3> QED BY <3>1
  <2>2. CASE u # t
    <3>1. job'[u] = job[u] BY <2>2 DEF CountersInv, CountersType
    <3>2. Sorted(job[u]) /\ Recent(job[u], now) BY DEF JobsInv
    <3> QED BY <3>1, <3>2
  <2> QED BY <2>1, <2>2
<1> QED BY <1>1 DEF JobsInv


\* A thread goes on with the same datagram and the same reading of the clock.
LEMMA StepKeepsJobs ==
  ASSUME CountersInv, JobsInv, NEW t \in Threads, NEW s, To(t, s), now' = now,
         job[t].step \notin {"idle", "log", "routed", "delivered", "refused"}
           \/ s \in {"log", "routed", "delivered", "refused"},
         job[t].step # "idle",
         s = "foreign" => job[t].key \in KeysOf("hosts"),
         s = "unpaired" => job[t].key \in KeysOf("pairings"),
         s = "decoded" => job[t].key[1] # "foreign",
         s \in {"malformed", "log", "logging"} => job[t].key \in KeysOf("logs")
  PROVE  JobsInv'
<1> DEFINE j == [job[t] EXCEPT !.step = s]
<1>1. job[t] \in Jobs BY DEF CountersInv, CountersType, Idle
<1>2. j.step = s /\ j.key = job[t].key /\ j.at = job[t].at BY <1>1 DEF Jobs
<1>3. job' = [job EXCEPT ![t] = j] BY DEF To
<1>4. Recent(job[t], now) BY DEF JobsInv
<1> HIDE DEF j
<1>5. Sorted(j) BY <1>2 DEF Sorted
<1>6. Recent(j, now) BY <1>2, <1>4 DEF Recent
<1> QED BY <1>3, <1>5, <1>6, JobsKeep

LEMMA ThreadKeepsJobs ==
  ASSUME CountersInv, JobsInv, NEW t \in Threads, Arrive(t) \/ Step(t)
  PROVE  JobsInv'
<1>0. /\ Sorted(job[t]) /\ now \in Nat /\ MaxLag \in Nat
      /\ job[t].step # "idle" => job[t].key \in Keys
  BY IntakeAssumption DEF JobsInv, CountersInv, CountersType, Jobs, Idle
<1>i. Sorted(Idle) /\ Recent(Idle, now) BY DEF Sorted, Recent, Idle
<1>1. CASE Arrive(t)
  <2>1. PICK key : job' = [job EXCEPT ![t] = [step |-> "stamped", key |-> key, at |-> now]]
    BY <1>1 DEF Arrive
  <2> DEFINE j == [step |-> "stamped", key |-> key, at |-> now]
  <2>2. Sorted(j) BY DEF Sorted
  <2>3. Recent(j, now) BY <1>0 DEF Recent
  <2>4. now' = now BY <1>1 DEF Arrive
  <2> QED BY <2>1, <2>2, <2>3, <2>4, JobsKeep
<1>2. CASE Count(t)
  <2>1. job[t].step = "stamped" /\ To(t, "counted") /\ now' = now BY <1>2 DEF Count
  <2> QED BY <2>1, StepKeepsJobs
<1>3. CASE Decode(t)
  <2> DEFINE s == CASE job[t].key[1] = "malformed" -> "malformed"
                    [] job[t].key[1] = "foreign"   -> "foreign"
                    [] OTHER                       -> "decoded"
  <2>1. job[t].step = "counted" /\ To(t, s) /\ now' = now BY <1>3 DEF Decode
  <2>2. /\ s \in {"malformed", "foreign", "decoded"}
        /\ s = "malformed" => job[t].key[1] = "malformed"
        /\ s = "foreign" => job[t].key[1] = "foreign"
        /\ s = "decoded" => job[t].key[1] # "foreign"
    OBVIOUS
  <2> HIDE DEF s
  <2>3. /\ s = "malformed" => job[t].key \in KeysOf("logs")
        /\ s = "foreign" => job[t].key \in KeysOf("hosts")
    BY <1>0, <2>1, <2>2 DEF KeysOf
  <2> QED BY <2>1, <2>2, <2>3, StepKeepsJobs
<1>4. CASE RejectMalformed(t)
  <2>1. job[t].step = "malformed" /\ To(t, "log") /\ now' = now BY <1>4 DEF RejectMalformed
  <2>2. job[t].key \in KeysOf("logs") BY <1>0, <2>1 DEF Sorted
  <2> QED BY <2>1, <2>2, StepKeepsJobs
<1>5. CASE RejectHost(t)
  <2>1. job' = [job EXCEPT ![t] = Idle] /\ now' = now BY <1>5 DEF RejectHost
  <2> QED BY <2>1, <1>i, JobsKeep
<1>6. CASE Validate(t)
  <2> DEFINE s == CASE job[t].key[1] = "unpaired" -> "unpaired"
                    [] job[t].key[1] = "odd"      -> "log"
                    [] OTHER                      -> "routed"
  <2>1. job[t].step = "decoded" /\ To(t, s) /\ now' = now BY <1>6 DEF Validate
  <2>2. /\ s \in {"unpaired", "log", "routed"}
        /\ s = "unpaired" => job[t].key[1] = "unpaired"
        /\ s = "log" => job[t].key[1] = "odd"
    OBVIOUS
  <2> HIDE DEF s
  <2>3. /\ s = "log" => job[t].key \in KeysOf("logs")
        /\ s = "unpaired" => job[t].key \in KeysOf("pairings")
    BY <1>0, <2>1, <2>2 DEF KeysOf
  <2> QED BY <2>1, <2>2, <2>3, StepKeepsJobs
<1>7. CASE RejectPairing(t)
  <2>1. job[t].step = "unpaired" /\ To(t, "refused") /\ now' = now BY <1>7 DEF RejectPairing
  <2> QED BY <2>1, StepKeepsJobs
<1>8. CASE LogRejection(t)
  <2> DEFINE j == [job[t] EXCEPT !.step = "logging", !.at = now]
  <2>1. /\ job[t].step = "log" /\ now' = now /\ job' = [job EXCEPT ![t] = j]
    BY <1>8 DEF LogRejection
  <2>2. job[t] \in Jobs BY <2>1 DEF CountersInv, CountersType, Idle
  <2>3. j.step = "logging" /\ j.key = job[t].key /\ j.at = now BY <2>2 DEF Jobs
  <2>4. job[t].key \in KeysOf("logs") BY <1>0, <2>1 DEF Sorted
  <2> HIDE DEF j
  <2>5. Sorted(j) BY <2>3, <2>4 DEF Sorted
  <2>6. Recent(j, now) BY <2>3, <1>0 DEF Recent
  <2> QED BY <2>1, <2>5, <2>6, JobsKeep
<1>9. CASE RememberLog(t)
  <2>1. job[t].step = "logging" /\ now' = now BY <1>9 DEF RememberLog
  <2>2. CASE job[t].key[1] = "malformed"
    <3>1. job' = [job EXCEPT ![t] = Idle] BY <1>9, <2>2 DEF RememberLog
    <3> QED BY <3>1, <2>1, <1>i, JobsKeep
  <2>3. CASE job[t].key[1] # "malformed"
    <3>1. To(t, "routed") BY <1>9, <2>3 DEF RememberLog
    <3> QED BY <3>1, <2>1, StepKeepsJobs
  <2> QED BY <2>2, <2>3
<1>10. CASE Deliver(t)
  <2>1. job[t].step = "routed" /\ To(t, "delivered") /\ now' = now BY <1>10 DEF Deliver
  <2> QED BY <2>1, StepKeepsJobs
<1>11. CASE CountResult(t)
  <2>1. job' = [job EXCEPT ![t] = Idle] /\ now' = now BY <1>11 DEF CountResult
  <2> QED BY <2>1, <1>i, JobsKeep
<1> QED BY <1>1, <1>2, <1>3, <1>4, <1>5, <1>6, <1>7, <1>8, <1>9, <1>10, <1>11 DEF Step


\* Nothing is said of the keys of a cache, and time may pass.
LEMMA QuietKeepsCache ==
  ASSUME now \in Nat, now' \in Nat, now <= now', HeardType,
         NEW c \in Caches, CacheInv(c), cache'[c] = cache[c],
         \A k \in KeysOf(c) : heard'[k] = heard[k]
  PROVE  CacheInv(c)'
<1> DEFINE s == cache[c]
<1>1. /\ s \in Seq(Entries(c)) /\ Ordered(s)
      /\ \A i \in 1..Len(s) : s[i].key \in KeysOf(c) /\ heard[s[i].key] = s[i].seenAt
  BY EntryIs
<1> HIDE DEF s
<1>2. \A i \in 1..Len(s) : heard'[s[i].key] = s[i].seenAt BY <1>1
<1>3. ASSUME NEW k \in KeysOf(c) PROVE Since(k)' = Since(k)
  <2>1. /\ Since(k) = {x \in KeysOf(c) \ {k} :
                         heard[x] # None /\ heard[x] >= heard[k] - MaxLag}
        /\ Since(k)' = {x \in KeysOf(c) \ {k} :
                          heard'[x] # None /\ heard'[x] >= heard'[k] - MaxLag}
    BY SinceIs, Zenon
  <2>2. ASSUME NEW x \in KeysOf(c)
        PROVE  (heard'[x] # None /\ heard'[x] >= heard'[k] - MaxLag)
                 <=> (heard[x] # None /\ heard[x] >= heard[k] - MaxLag)
    OBVIOUS
  <2> QED BY <2>1, <2>2, Zenon
<1>4. ASSUME NEW k \in KeysOf(c), heard'[k] # None, ~Holds(s, k)
      PROVE  now' >= heard'[k] + TTL \/ Cardinality(Since(k)') >= MaxEntries
  <2>1. now >= heard[k] + TTL \/ Cardinality(Since(k)) >= MaxEntries
    BY <1>4 DEF CacheInv, MissingIsOld, s
  <2>2. CASE now >= heard[k] + TTL
    <3>1. heard[k] \in Nat /\ heard'[k] = heard[k] BY <1>4 DEF HeardType, KeysOf
    <3>2. TTL \in Nat BY IntakeAssumption
    <3>3. now' >= heard[k] + TTL BY <2>2, <3>1, <3>2, SMT
    <3> QED BY <3>1, <3>3
  <2>3. CASE Cardinality(Since(k)) >= MaxEntries BY <2>3, <1>3
  <2> QED BY <2>1, <2>2, <2>3
<1>5. MissingIsOld(c)'
  <2>1. \A k \in KeysOf(c) :
          heard'[k] # None /\ ~Holds(cache'[c], k) =>
            now' >= heard'[k] + TTL \/ Cardinality(Since(k)') >= MaxEntries
    BY <1>4 DEF s
  <2> QED BY <2>1, Zenon DEF MissingIsOld
<1> QED BY <1>1, <1>2, <1>5 DEF CacheInv, s

LEMMA QuietKeepsCaches ==
  ASSUME now \in Nat, now' \in Nat, now <= now', CachesInv, UNCHANGED <<cache, heard>>
  PROVE  CachesInv'
<1>1. DOMAIN cache = Caches /\ HeardType /\ \A c \in Caches : CacheInv(c)
  BY DEF CachesInv
<1>2. \A c \in Caches : CacheInv(c)' BY <1>1, QuietKeepsCache
<1>3. HeardType'
  <2>1. ASSUME NEW k \in Keys, heard[k] # None PROVE heard[k] <= now'
    <3>1. heard[k] \in Nat /\ heard[k] <= now BY <1>1, <2>1 DEF HeardType
    <3> QED BY <3>1, SMT
  <2>2. heard' = heard OBVIOUS
  <2> QED BY <1>1, <2>1, <2>2, Zenon DEF HeardType
<1> QED BY <1>1, <1>2, <1>3 DEF CachesInv

LEMMA NewCodeKeepsCaches ==
  ASSUME now \in Nat, CachesInv, SetPairingToken
  PROVE  CachesInv'
<1>1. DOMAIN cache = Caches /\ HeardType /\ \A c \in Caches : CacheInv(c)
  BY DEF CachesInv
<1>2. /\ now' = now /\ cache' = [cache EXCEPT !["pairings"] = <<>>]
      /\ \A k \in Keys : heard'[k] = IF k[1] = "unpaired" THEN None ELSE heard[k]
      /\ heard' \in [Keys -> Nat \cup {None}]
  BY <1>1 DEF SetPairingToken, HeardType
<1>3. HeardType'
  <2> DEFINE old == {k \in Keys : heard[k] # None}
             young == {k \in Keys : heard'[k] # None}
  <2>1. young \in SUBSET old BY <1>2
  <2>2. IsFiniteSet(old) BY <1>1 DEF HeardType
  <2> HIDE DEF old, young
  <2>3. IsFiniteSet(young) BY <2>1, <2>2, FS_Subset
  <2>4. \A k \in Keys : heard'[k] # None => heard'[k] <= now'
    BY <1>1, <1>2 DEF HeardType
  <2> QED BY <1>2, <2>3, <2>4 DEF HeardType, young
<1>4. CacheInv("pairings")'
  <2>1. cache'["pairings"] = <<>> /\ <<>> \in Seq(Entries("pairings"))
    BY <1>1, <1>2 DEF Caches
  <2>2. DOMAIN cache'["pairings"] = {} /\ Len(cache'["pairings"]) = 0 BY <2>1
  <2>3. Ordered(cache'["pairings"]) BY <2>2 DEF Ordered
  <2>4. \A k \in KeysOf("pairings") : heard'[k] = None BY <1>2 DEF KeysOf
  <2>5. MissingIsOld("pairings")' BY <2>4 DEF MissingIsOld
  <2> QED BY <2>1, <2>2, <2>3, <2>5 DEF CacheInv
<1>5. ASSUME NEW c \in Caches, c # "pairings" PROVE CacheInv(c)'
  <2>1. cache'[c] = cache[c] BY <1>1, <1>2, <1>5
  <2>2. \A k \in KeysOf(c) : k \in Keys /\ k[1] # "unpaired"
    BY <1>5 DEF KeysOf, Caches
  <2>3. \A k \in KeysOf(c) : heard'[k] = heard[k] BY <1>2, <2>2
  <2>4. now' \in Nat /\ now <= now' BY <1>2
  <2> QED BY <1>1, <2>1, <2>3, <2>4, QuietKeepsCache
<1>6. \A c \in Caches : CacheInv(c)' BY <1>4, <1>5
<1>7. DOMAIN cache' = Caches BY <1>1, <1>2
<1> QED BY <1>3, <1>6, <1>7 DEF CachesInv


\* The steps that report a rejection: to which cache, and by what clock.
LEMMA ReportIs ==
  ASSUME LogInv, NEW t \in Threads, RejectHost(t) \/ RejectPairing(t) \/ RememberLog(t)
  PROVE  /\ now' = now
         /\ \E c \in Caches : /\ job[t].key \in KeysOf(c)
                              /\ Remember(c, job[t].key, job[t].at)
         /\ job[t].at \in Nat /\ job[t].at <= now /\ now <= job[t].at + MaxLag
<1>1. Sorted(job[t]) /\ Recent(job[t], now) BY DEF LogInv, JobsInv
<1>2. job[t].step \in {"foreign", "unpaired", "logging"} /\ now' = now
  BY DEF RejectHost, RejectPairing, RememberLog
<1>3. job[t].at \in Nat BY <1>2 DEF LogInv, CountersInv, CountersType, Jobs, Idle
<1>4. job[t].at <= now /\ now <= job[t].at + MaxLag BY <1>1, <1>2 DEF Recent
<1>5. \E c \in Caches : job[t].key \in KeysOf(c) /\ Remember(c, job[t].key, job[t].at)
  <2>1. CASE RejectHost(t)
    <3>1. job[t].step = "foreign" /\ Remember("hosts", job[t].key, job[t].at)
      BY <2>1 DEF RejectHost
    <3>2. job[t].key \in KeysOf("hosts") BY <3>1, <1>1 DEF Sorted
    <3> QED BY <3>1, <3>2 DEF Caches
  <2>2. CASE RejectPairing(t)
    <3>1. job[t].step = "unpaired" /\ Remember("pairings", job[t].key, job[t].at)
      BY <2>2 DEF RejectPairing
    <3>2. job[t].key \in KeysOf("pairings") BY <3>1, <1>1 DEF Sorted
    <3> QED BY <3>1, <3>2 DEF Caches
  <2>3. CASE RememberLog(t)
    <3>1. job[t].step = "logging" /\ Remember("logs", job[t].key, job[t].at)
      BY <2>3 DEF RememberLog
    <3>2. job[t].key \in KeysOf("logs") BY <3>1, <1>1 DEF Sorted
    <3> QED BY <3>1, <3>2 DEF Caches
  <2> QED BY <2>1, <2>2, <2>3
<1> QED BY <1>2, <1>3, <1>4, <1>5

LEMMA NextKeepsLog == LogInv /\ [Next]_vars => LogInv'
<1> SUFFICES ASSUME LogInv, [Next]_vars PROVE LogInv' OBVIOUS
<1>1. CountersInv /\ JobsInv /\ CachesInv /\ now \in Nat
  BY DEF LogInv, CountersInv, CountersType
<1>2. CountersInv' BY <1>1, NextKeepsCounters
<1>3. CASE \E t \in Threads : Arrive(t) \/ Step(t)
  <2>1. PICK t \in Threads : Arrive(t) \/ Step(t) BY <1>3
  <2>2. JobsInv' BY <1>1, <2>1, ThreadKeepsJobs
  <2>3. CASE RejectHost(t) \/ RejectPairing(t) \/ RememberLog(t)
    <3>1. CachesInv' BY <1>1, <2>3, ReportIs, RememberKeepsCaches
    <3> QED BY <1>2, <2>2, <3>1 DEF LogInv
  <2>4. CASE ~(RejectHost(t) \/ RejectPairing(t) \/ RememberLog(t))
    <3>1. now' = now /\ cache' = cache /\ heard' = heard
      BY <2>1, <2>4 DEF Step, Arrive, Count, Decode, RejectMalformed, Validate,
                        LogRejection, Deliver, CountResult, caches
    <3>2. CachesInv' BY <1>1, <3>1, QuietKeepsCaches
    <3> QED BY <1>2, <2>2, <3>2 DEF LogInv
  <2> QED BY <2>3, <2>4
<1>4. CASE Tick
  <2>1. now' = now + 1 /\ job' = job /\ cache' = cache /\ heard' = heard
    BY <1>4 DEF Tick, caches
  <2>2. CachesInv' BY <1>1, <2>1, QuietKeepsCaches
  <2>3. ASSUME NEW t \in Threads PROVE Sorted(job'[t]) /\ Recent(job'[t], now')
    <3>1. /\ Sorted(job[t]) /\ Recent(job[t], now)
          /\ job[t].step \notin {"idle", "log", "routed", "delivered", "refused"}
               => now - job[t].at < MaxLag
      BY <1>1, <1>4 DEF JobsInv, Tick
    <3>2. job[t].step # "idle" => job[t].at \in Nat
      BY <1>1 DEF CountersInv, CountersType, Jobs, Idle
    <3>3. MaxLag \in Nat BY IntakeAssumption
    <3>4. ASSUME job[t].step \notin {"idle", "log", "routed", "delivered", "refused"}
          PROVE  job[t].at <= now' /\ now' <= job[t].at + MaxLag
      <4>1. job[t].at \in Nat /\ job[t].at <= now /\ now - job[t].at < MaxLag
        BY <3>1, <3>2, <3>4 DEF Recent
      <4> QED BY <4>1, <1>1, <2>1, <3>3, SMT
    <3> QED BY <2>1, <3>1, <3>4 DEF Recent
  <2> QED BY <1>2, <2>2, <2>3 DEF LogInv, JobsInv
<1>5. CASE SetPairingToken
  <2>1. now' = now /\ job' = job BY <1>5 DEF SetPairingToken
  <2>2. JobsInv' BY <1>1, <2>1 DEF JobsInv
  <2> QED BY <1>1, <1>2, <1>5, <2>2, NewCodeKeepsCaches DEF LogInv
<1>6. CASE UNCHANGED vars
  <2>1. now' = now /\ job' = job /\ cache' = cache /\ heard' = heard
    BY <1>6 DEF vars, caches
  <2>2. JobsInv' BY <1>1, <2>1 DEF JobsInv
  <2>3. CachesInv' BY <1>1, <2>1, QuietKeepsCaches
  <2> QED BY <1>2, <2>2, <2>3 DEF LogInv
<1> QED BY <1>3, <1>4, <1>5, <1>6 DEF Next

LEMMA NextLogsNews ==
  ASSUME LogInv, [Next]_vars, NEW t \in Threads,
         job[t].step \in {"foreign", "unpaired", "logging"}, job'[t] # job[t]
  PROVE  IF logged'
         THEN \/ heard[job[t].key] = None
              \/ job[t].at >= heard[job[t].key] + TTL - MaxLag
              \/ Cardinality(Since(job[t].key)) >= MaxEntries
         ELSE /\ heard[job[t].key] # None
              /\ job[t].at < heard[job[t].key] + TTL + MaxLag
<1>1. CountersInv /\ CachesInv /\ now \in Nat
  BY DEF LogInv, CountersInv, CountersType
<1>2. PICK u \in Threads : Arrive(u) \/ Step(u)
  BY DEF Next, Tick, SetPairingToken, vars
<1>3. u = t
  <2>1. CASE u # t
    <3>1. \E j : job' = [job EXCEPT ![u] = j]
      BY <1>2 DEF Step, To, Arrive, Count, Decode, RejectMalformed, RejectHost, Validate,
                  RejectPairing, LogRejection, RememberLog, Deliver, CountResult
    <3>2. job'[t] = job[t] BY <2>1, <3>1, <1>1 DEF CountersInv, CountersType
    <3> QED BY <3>2
  <2> QED BY <2>1
<1>4. RejectHost(t) \/ RejectPairing(t) \/ RememberLog(t)
  BY <1>2, <1>3 DEF Step, Arrive, Count, Decode, RejectMalformed, Validate, LogRejection,
                    Deliver, CountResult
<1> QED BY <1>1, <1>4, ReportIs, RememberLogsNews

\* A rejection is logged if and only if it is news, whichever thread reports it, whatever
\* the other one does in between and however many hosts, sessions and kinds of datagrams
\* share a cache (receiver.py:350, 767-792).
THEOREM RejectionsAreLoggedHolds == Spec => RejectionsAreLogged
<1>1. LogInv /\ [Next]_vars =>
        [\A t \in Threads :
           job[t].step \in {"foreign", "unpaired", "logging"} /\ job'[t] # job[t] =>
             LET key == job[t].key
                 at  == job[t].at
             IN  IF logged'
                 THEN \/ heard[key] = None
                      \/ at >= heard[key] + TTL - MaxLag
                      \/ Cardinality(Since(key)) >= MaxEntries
                 ELSE heard[key] # None /\ at < heard[key] + TTL + MaxLag]_vars
  BY NextLogsNews, Zenon
<1> QED BY <1>1, InitLog, NextKeepsLog, PTL DEF Spec, RejectionsAreLogged
=============================================================================
