--------------------------- MODULE FaucetRun_proofs ---------------------------
(***************************************************************************)
(* FaucetRun for any faucets, docks and rates, any resolution of the file's *)
(* times and any number of kills: one person who runs the script is sent to *)
(* a faucet that refuses only because of a visit whose record was killed,   *)
(* or for less than a second.                                               *)
(***************************************************************************)
EXTENDS FaucetRun, TLAPS

Visit == [pair : Pair, ts : Int]

FaucetTypeOK ==
    /\ clock \in Nat /\ visits \in SUBSET Visit /\ drips \in SUBSET Visit
    /\ readable \in BOOLEAN
    /\ person \in [People ->
            {Idle} \cup [step : {"visit", "record", "refused"}, pair : Pair, owed : SUBSET drips]
                   \cup [step : {"write"}, pair : Pair, owed : SUBSET drips,
                         read : SUBSET Visit, ts : Int]]

\* The file accounts for a drip once it has a visit to the same faucet for the same
\* dock that is no more than its rounding earlier.
Recorded(d) == \E v \in visits : v.pair = d.pair /\ d.ts < v.ts + Second

\* The faucet will pay within a second.
AlmostWilling(pair) ==
    \A d \in drips \ lost : d.pair = pair => clock - d.ts > Cooldown[pair[1]] - Second

\* A person owes the record of a drip to the pair he is at, and of none before it.
OwedRight(p) ==
    /\ person[p].step \in {"visit", "refused"} => person[p].owed = {}
    /\ person[p].step \in {"visit", "record", "refused", "write"} =>
          \A d \in person[p].owed : d.pair = person[p].pair
    /\ person[p].step = "write" => \A d \in person[p].owed : d.ts < person[p].ts + Second

Owes(p, d) == person[p].step \in {"record", "write"} /\ d \in person[p].owed

\* Why the script is right: each drip is in the file, in the hands of the person, who
\* writes back what the file holds, or lost to a kill; an unreadable file stops him.
FaucetInv ==
    /\ FaucetTypeOK
    /\ \A d \in drips : d.ts <= clock
    /\ \A p \in People :
          /\ OwedRight(p)
          /\ person[p].step \in {"visit", "refused"} => AlmostWilling(person[p].pair)
          /\ person[p].step # "idle" => readable
          /\ person[p].step = "write" => person[p].read = visits
    /\ \A d \in drips \ lost : Recorded(d) \/ \E p \in People : Owes(p, d)

RatesTyped == Cooldown \in [Faucets -> Int]

\* Whoever comes between a read and a write is lost with what he recorded.
OnePerson == \A p, q \in People : p = q

-------------------------------------------------------------------------------
LEMMA FaucetInit == ScriptInit => FaucetInv
BY DEF ScriptInit, FaucetInv, FaucetTypeOK, Idle, Visit, OwedRight

\* The steps a person may be at, and what he then carries.
LEMMA PersonTyped ==
    ASSUME FaucetInv, NEW p \in People
    PROVE  /\ person[p] = Idle \/ person[p].step \in {"visit", "record", "refused", "write"}
           /\ Idle.step = "idle"
           /\ person[p].step \in {"visit", "record", "refused"} =>
                person[p] \in [step : {"visit", "record", "refused"}, pair : Pair,
                               owed : SUBSET drips]
           /\ person[p].step = "write" =>
                person[p] \in [step : {"write"}, pair : Pair, owed : SUBSET drips,
                               read : SUBSET Visit, ts : Int]
BY DEF FaucetInv, FaucetTypeOK, Idle

LEMMA Rounded ==
    ASSUME NEW t \in Nat
    PROVE  WholeSecond(t) \in Int /\ WholeSecond(t) <= t /\ t < WholeSecond(t) + Second
<1>1. t % Second \in Nat /\ t % Second < Second
  BY SecondAssumption
<1>2. QED
  BY <1>1, SecondAssumption DEF WholeSecond

\* What the file calls eligible, the faucet grants within a second, when nothing is in
\* between.
LEMMA EligibleIsWilling ==
    ASSUME FaucetInv, RatesTyped, NEW pair \in Pair, Eligible(pair, visits),
           \A d \in drips \ lost : Recorded(d)
    PROVE  AlmostWilling(pair)
<1>1. SUFFICES ASSUME NEW d \in drips \ lost, d.pair = pair
               PROVE  clock - d.ts > Cooldown[pair[1]] - Second
  BY DEF AlmostWilling
<1>2. PICK v \in visits : v.pair = d.pair /\ d.ts < v.ts + Second
  BY DEF Recorded
<1>3. clock - v.ts >= Cooldown[pair[1]]
  BY <1>1, <1>2 DEF Eligible
<1>4. /\ clock \in Nat /\ d.ts \in Int /\ v.ts \in Int /\ Cooldown[pair[1]] \in Int
      /\ Second \in Nat
  BY SecondAssumption DEF FaucetInv, FaucetTypeOK, Visit, Pair, RatesTyped
<1>5. QED
  BY <1>2, <1>3, <1>4

LEMMA TimeKeeps ==
    ASSUME FaucetInv, RatesTyped, TimePasses
    PROVE  FaucetInv'
<1>1. /\ clock \in Nat /\ clock' = clock + 1
      /\ UNCHANGED <<visits, readable, drips, lost, person>>
  BY DEF TimePasses, FaucetInv, FaucetTypeOK
<1>2. ASSUME NEW pair \in Pair, AlmostWilling(pair)
      PROVE  AlmostWilling(pair)'
  <2>1. SUFFICES ASSUME NEW d \in drips \ lost, d.pair = pair
                 PROVE  clock' - d.ts > Cooldown[pair[1]] - Second
    BY <1>1 DEF AlmostWilling
  <2>2. clock - d.ts > Cooldown[pair[1]] - Second
    BY <1>2, <2>1 DEF AlmostWilling
  <2>3. d.ts \in Int /\ Cooldown[pair[1]] \in Int /\ Second \in Nat
    BY SecondAssumption DEF FaucetInv, FaucetTypeOK, Visit, Pair, RatesTyped
  <2>4. QED
    BY <1>1, <2>2, <2>3
<1>3. ASSUME NEW p \in People, person[p].step \in {"visit", "refused"}
      PROVE  AlmostWilling(person[p].pair)'
  <2>1. person[p].pair \in Pair
    BY <1>3, PersonTyped
  <2>2. AlmostWilling(person[p].pair)
    BY <1>3 DEF FaucetInv
  <2>3. QED
    BY <1>1, <1>2, <2>1, <2>2 DEF AlmostWilling
<1>4. \A d \in drips : d.ts <= clock'
  BY <1>1 DEF FaucetInv, FaucetTypeOK, Visit
<1>5. QED
  BY <1>1, <1>3, <1>4 DEF FaucetInv, FaucetTypeOK, Recorded, OwedRight, Owes

LEMMA AdviseKeeps ==
    ASSUME FaucetInv, RatesTyped, OnePerson, NEW p \in People, Advise(p)
    PROVE  FaucetInv'
<1>1. PICK pair \in Pair :
          /\ Eligible(pair, visits)
          /\ person' = [person EXCEPT ![p] = [step |-> "visit", pair |-> pair, owed |-> {}]]
  BY DEF Advise
<1>2. person[p] = Idle /\ readable /\ UNCHANGED <<clock, visits, readable, drips, lost>>
  BY DEF Advise
<1>3. \A q \in People : q = p
  BY DEF OnePerson
<1>4. \A d \in drips \ lost : Recorded(d)
  BY <1>2, <1>3 DEF FaucetInv, Owes, Idle
<1>5. AlmostWilling(pair)
  BY <1>1, <1>4, EligibleIsWilling
<1>6. person'[p] = [step |-> "visit", pair |-> pair, owed |-> {}]
  BY <1>1 DEF FaucetInv, FaucetTypeOK
<1>7. FaucetTypeOK'
  BY <1>1, <1>2 DEF FaucetInv, FaucetTypeOK
<1>8. OwedRight(p)' /\ AlmostWilling(pair)'
  BY <1>2, <1>5, <1>6 DEF OwedRight, AlmostWilling
<1>9. QED
  BY <1>2, <1>3, <1>4, <1>6, <1>7, <1>8 DEF FaucetInv, Recorded

LEMMA VisitKeeps ==
    ASSUME FaucetInv, OnePerson, NEW p \in People, VisitFaucet(p)
    PROVE  FaucetInv'
<1> DEFINE drip == [pair |-> person[p].pair, ts |-> clock]
<1>1. person[p].step = "visit" /\ UNCHANGED <<clock, visits, readable, lost>>
  BY DEF VisitFaucet
<1>2. /\ person[p] \in [step : {"visit", "record", "refused"}, pair : Pair, owed : SUBSET drips]
      /\ person[p].owed = {}
  BY <1>1, PersonTyped DEF FaucetInv, OwedRight
<1>3. readable /\ AlmostWilling(person[p].pair)
  BY <1>1 DEF FaucetInv
<1>4. \A q \in People : q = p
  BY DEF OnePerson
<1>5. \A d \in drips \ lost : Recorded(d)
  BY <1>1, <1>4 DEF FaucetInv, Owes
<1>6. CASE Willing(person[p].pair)
  <2>1. /\ drips' = drips \cup {drip}
        /\ person' = [person EXCEPT ![p].step = "record", ![p].owed = {drip}]
    BY <1>6 DEF VisitFaucet
  <2>2. person'[p] = [step |-> "record", pair |-> person[p].pair, owed |-> {drip}]
    BY <1>2, <2>1 DEF FaucetInv, FaucetTypeOK
  <2>3. drip \in Visit /\ drip.pair = person[p].pair /\ drip.ts = clock
    BY <1>2 DEF FaucetInv, FaucetTypeOK, Visit
  <2> HIDE DEF drip
  <2>4. FaucetTypeOK'
    <3>1. person' \in [People -> {person'[p]}]
      BY <1>4, <2>1 DEF FaucetInv, FaucetTypeOK
    <3>2. person'[p] \in [step : {"visit", "record", "refused"}, pair : Pair,
                          owed : SUBSET drips']
      <4>1. {drip} \in SUBSET drips'
        BY <2>1
      <4>2. QED
        BY <1>2, <2>2, <4>1
    <3>3. QED
      BY <1>1, <2>1, <2>3, <3>1, <3>2 DEF FaucetInv, FaucetTypeOK
  <2>5. \A d \in drips' : d.ts <= clock'
    BY <1>1, <2>1, <2>3 DEF FaucetInv, FaucetTypeOK
  <2>6. OwedRight(p)'
    BY <2>2, <2>3 DEF OwedRight
  <2>7. ASSUME NEW d \in drips' \ lost' PROVE Recorded(d)' \/ Owes(p, d)'
    <3>1. CASE d = drip
      BY <2>2, <3>1 DEF Owes
    <3>2. CASE d \in drips
      BY <1>1, <1>5, <2>7, <3>2 DEF Recorded
    <3>3. QED
      BY <2>1, <2>7, <3>1, <3>2
  <2>8. QED
    BY <1>1, <1>3, <1>4, <2>2, <2>4, <2>5, <2>6, <2>7 DEF FaucetInv
<1>7. CASE ~Willing(person[p].pair)
  <2>1. drips' = drips /\ person' = [person EXCEPT ![p].step = "refused"]
    BY <1>7 DEF VisitFaucet
  <2>2. person'[p] = [step |-> "refused", pair |-> person[p].pair, owed |-> {}]
    BY <1>2, <2>1 DEF FaucetInv, FaucetTypeOK
  <2>3. FaucetTypeOK'
    BY <1>1, <1>2, <2>1 DEF FaucetInv, FaucetTypeOK
  <2>4. OwedRight(p)' /\ AlmostWilling(person[p].pair)'
    BY <1>1, <1>3, <2>1, <2>2 DEF OwedRight, AlmostWilling
  <2>5. QED
    BY <1>1, <1>3, <1>4, <1>5, <2>1, <2>2, <2>3, <2>4 DEF FaucetInv, Recorded
<1>8. QED
  BY <1>6, <1>7

LEMMA ParkKeeps ==
    ASSUME FaucetInv, OnePerson, NEW p \in People, ParkVisit(p)
    PROVE  FaucetInv'
<1>1. /\ person[p].step \in {"visit", "refused"}
      /\ UNCHANGED <<clock, visits, readable, drips, lost>>
      /\ person' = [person EXCEPT ![p].step = "record"]
  BY DEF ParkVisit
<1>2. /\ person[p] \in [step : {"visit", "record", "refused"}, pair : Pair, owed : SUBSET drips]
      /\ person[p].owed = {} /\ readable
  BY <1>1, PersonTyped DEF FaucetInv, OwedRight
<1>3. person'[p] = [step |-> "record", pair |-> person[p].pair, owed |-> {}]
  BY <1>1, <1>2 DEF FaucetInv, FaucetTypeOK
<1>4. FaucetTypeOK'
  BY <1>1, <1>2 DEF FaucetInv, FaucetTypeOK
<1>5. \A q \in People : q = p
  BY DEF OnePerson
<1>6. \A d \in drips \ lost : Recorded(d)
  BY <1>1, <1>5 DEF FaucetInv, Owes
<1>7. QED
  BY <1>1, <1>2, <1>3, <1>4, <1>5, <1>6 DEF FaucetInv, OwedRight, Recorded

LEMMA ReadKeeps ==
    ASSUME FaucetInv, OnePerson, NEW p \in People, ReadState(p)
    PROVE  FaucetInv'
<1> DEFINE writer == [step |-> "write", pair |-> person[p].pair, owed |-> person[p].owed,
                      read |-> visits, ts |-> WholeSecond(clock)]
<1>1. /\ person[p].step = "record" /\ readable
      /\ UNCHANGED <<clock, visits, readable, drips, lost>>
      /\ person' = [person EXCEPT ![p] = writer]
  BY DEF ReadState
<1>2. person[p] \in [step : {"visit", "record", "refused"}, pair : Pair, owed : SUBSET drips]
  BY <1>1, PersonTyped
<1>3. person'[p] = writer
  BY <1>1 DEF FaucetInv, FaucetTypeOK
<1>4. /\ clock \in Nat /\ WholeSecond(clock) \in Int /\ clock < WholeSecond(clock) + Second
      /\ Second \in Nat
  BY Rounded, SecondAssumption DEF FaucetInv, FaucetTypeOK
<1>5. writer \in [step : {"write"}, pair : Pair, owed : SUBSET drips,
                  read : SUBSET Visit, ts : Int]
  BY <1>2, <1>4 DEF FaucetInv, FaucetTypeOK
<1>6. \A d \in writer.owed : d.pair = writer.pair /\ d.ts < writer.ts + Second
  <2>1. ASSUME NEW d \in person[p].owed
        PROVE  d.pair = person[p].pair /\ d.ts < WholeSecond(clock) + Second
    <3>1. d \in drips /\ d.pair = person[p].pair
      BY <1>1, <1>2 DEF FaucetInv, OwedRight
    <3>2. d.ts <= clock /\ d.ts \in Int
      BY <3>1 DEF FaucetInv, FaucetTypeOK, Visit
    <3>3. QED
      BY <1>4, <3>1, <3>2
  <2>2. QED
    BY <2>1
<1>7. writer.step = "write" /\ writer.read = visits /\ writer.owed = person[p].owed
  OBVIOUS
<1> HIDE DEF writer
<1>8. FaucetTypeOK'
  BY <1>1, <1>5 DEF FaucetInv, FaucetTypeOK
<1>9. \A q \in People : q = p
  BY DEF OnePerson
<1>10. OwedRight(p)'
  BY <1>3, <1>6, <1>7 DEF OwedRight
<1>11. \A d \in drips \ lost : Recorded(d)' \/ Owes(p, d)'
  BY <1>1, <1>3, <1>7, <1>9 DEF FaucetInv, Recorded, Owes
<1>12. QED
  BY <1>1, <1>3, <1>7, <1>8, <1>9, <1>10, <1>11 DEF FaucetInv

LEMMA WriteKeeps ==
    ASSUME FaucetInv, OnePerson, NEW p \in People, WriteState(p)
    PROVE  FaucetInv'
<1> DEFINE visit == [pair |-> person[p].pair, ts |-> person[p].ts]
<1>1. /\ person[p].step = "write" /\ readable /\ person[p].read = visits
      /\ \A d \in person[p].owed : d.pair = person[p].pair /\ d.ts < person[p].ts + Second
  BY DEF WriteState, FaucetInv, OwedRight
<1>2. /\ visits' = visits \cup {visit}
      /\ readable' = TRUE /\ UNCHANGED <<clock, drips, lost>>
      /\ person' = [person EXCEPT ![p] = Idle]
  BY <1>1 DEF WriteState, VisitsWritten
<1>3. visit \in Visit
  BY <1>1, PersonTyped DEF Visit
<1>4. FaucetTypeOK' /\ person'[p] = Idle
  BY <1>2, <1>3 DEF FaucetInv, FaucetTypeOK
<1>5. \A q \in People : q = p
  BY DEF OnePerson
<1>6. ASSUME NEW d \in drips \ lost PROVE Recorded(d)'
  <2>1. Recorded(d) \/ d \in person[p].owed
    BY <1>5 DEF FaucetInv, Owes
  <2>2. CASE Recorded(d)
    BY <1>2, <2>2 DEF Recorded
  <2>3. CASE d \in person[p].owed
    <3>1. visit \in visits' /\ visit.pair = d.pair /\ d.ts < visit.ts + Second
      BY <1>1, <1>2, <2>3
    <3>2. QED
      BY <3>1 DEF Recorded
  <2>4. QED
    BY <2>1, <2>2, <2>3
<1>7. QED
  BY <1>2, <1>4, <1>5, <1>6 DEF FaucetInv, Idle, OwedRight

LEMMA InterruptedKeeps ==
    ASSUME FaucetInv, OnePerson, NEW p \in People, Interrupted(p)
    PROVE  FaucetInv'
<1>1. /\ lost' = lost \cup person[p].owed /\ UNCHANGED <<clock, visits, readable, drips>>
      /\ person' = [person EXCEPT ![p] = Idle]
  BY DEF Interrupted
<1>2. FaucetTypeOK' /\ person'[p] = Idle
  BY <1>1 DEF FaucetInv, FaucetTypeOK
<1>3. \A q \in People : q = p
  BY DEF OnePerson
<1>4. ASSUME NEW d \in drips \ lost' PROVE Recorded(d)'
  <2>1. Recorded(d)
    BY <1>1, <1>3, <1>4 DEF FaucetInv, Owes
  <2>2. QED
    BY <1>1, <2>1 DEF Recorded
<1>5. QED
  BY <1>1, <1>2, <1>3, <1>4 DEF FaucetInv, Idle, OwedRight

LEMMA KillKeeps ==
    ASSUME FaucetInv, OnePerson, NEW p \in People, KilledWhileWriting(p)
    PROVE  FaucetInv'
<1>1. /\ visits' = {} /\ readable' = FALSE /\ lost' = drips /\ UNCHANGED <<clock, drips>>
      /\ person' = [person EXCEPT ![p] = Idle]
  BY DEF KilledWhileWriting
<1>2. FaucetTypeOK' /\ person'[p] = Idle
  BY <1>1 DEF FaucetInv, FaucetTypeOK
<1>3. \A q \in People : q = p
  BY DEF OnePerson
<1>4. QED
  BY <1>1, <1>2, <1>3 DEF FaucetInv, Idle, OwedRight

LEMMA StutterKeeps ==
    ASSUME FaucetInv, UNCHANGED scriptVars
    PROVE  FaucetInv'
BY DEF scriptVars, FaucetInv, FaucetTypeOK, AlmostWilling, Recorded, OwedRight, Owes

LEMMA FaucetStep ==
    ASSUME FaucetInv, RatesTyped, OnePerson, [ScriptNext]_scriptVars
    PROVE  FaucetInv'
BY TimeKeeps, AdviseKeeps, VisitKeeps, ParkKeeps, ReadKeeps, WriteKeeps, InterruptedKeeps,
   KillKeeps, StutterKeeps DEF ScriptNext

\* Whatever the faucets' rates and wherever sessions are cut short: READY sends one
\* person to a faucet that refuses only after a visit whose own record was cut off, or
\* for less than the second the file's times are rounded by.
THEOREM OnlyKilledVisitsAreMissed ==
    ASSUME RatesTyped, OnePerson
    PROVE  ScriptSpec => []RefusalsExplained
<1>1. FaucetInv /\ [ScriptNext]_scriptVars => FaucetInv'
  BY FaucetStep
<1>2. FaucetInv => RefusalsExplained
  BY DEF FaucetInv, AlmostWilling, RefusalsExplained
<1>3. QED
  BY FaucetInit, <1>1, <1>2, PTL DEF ScriptSpec
===============================================================================
