------------------------------- MODULE FaucetRun -------------------------------
(***************************************************************************)
(* script/microwonk/next_faucet_run.py: which faucet to visit next for     *)
(* which loading dock, from the drips recorded in config/faucet-state.json.*)
(* The operator and an assistant run it by turns or side by side; each run *)
(* is a process that reads the file, and `record` writes it back.  A       *)
(* session may be left, or a process killed, between any two steps.        *)
(***************************************************************************)
EXTENDS Integers, FiniteSets

CONSTANTS
    Faucets, Docks,
    Cooldown,       \* time between two drips of a faucet to one address, in ticks
    Second,         \* ticks in a second, to which the file rounds its times
    People,         \* who runs the script
    LastTick,       \* last time explored (bound)
    MaxKills        \* sessions left and processes killed (bound)

ASSUME SecondAssumption == Second \in Nat \ {0}

Pair == Faucets \X Docks

VARIABLES
    clock,
    visits,     \* the visits in the file
    readable,   \* whether the file is JSON
    drips,      \* what the faucets have paid out, and when
    lost,       \* the drips whose record did not survive
    person,     \* what each person is doing
    kills

scriptVars == <<clock, visits, readable, drips, lost, person, kills>>

Idle == [step |-> "idle"]

-------------------------------------------------------------------------------
\* Both rates of a faucet are turned into a time since the last visit; a faucet
\* without a rate is always eligible, and so is a pair never visited.
Eligible(pair, known) ==
    \A v \in known : v.pair = pair => clock - v.ts >= Cooldown[pair[1]]

\* next, resume: somebody picks a READY pair and opens that faucet.
Advise(p) ==
    /\ person[p] = Idle /\ readable
    /\ \E pair \in Pair :
        /\ Eligible(pair, visits)
        /\ person' = [person EXCEPT ![p] = [step |-> "visit", pair |-> pair, owed |-> {}]]
    /\ UNCHANGED <<clock, visits, readable, drips, lost, kills>>

\* The faucet keeps its own limit, with the exact time.
Willing(pair) == \A d \in drips : d.pair = pair => clock - d.ts >= Cooldown[pair[1]]

\* `owed` is the drip a person has yet to record.
VisitFaucet(p) ==
    /\ person[p].step = "visit"
    /\ LET drip == [pair |-> person[p].pair, ts |-> clock]
       IN  IF Willing(person[p].pair)
           THEN /\ drips' = drips \cup {drip}
                /\ person' = [person EXCEPT ![p].step = "record", ![p].owed = {drip}]
           ELSE /\ person' = [person EXCEPT ![p].step = "refused"]
                /\ UNCHANGED drips
    /\ UNCHANGED <<clock, visits, readable, lost, kills>>

\* The faucet is depleted or down, or has refused: "mark the visit anyway".
ParkVisit(p) ==
    /\ person[p].step \in {"visit", "refused"}
    /\ person' = [person EXCEPT ![p].step = "record"]
    /\ UNCHANGED <<clock, visits, readable, drips, lost, kills>>

\* strftime drops the fraction of a second.
WholeSecond(t) == t - (t % Second)

\* record, first half: state_get; the visit is stamped with the time of the record.
ReadState(p) ==
    /\ person[p].step = "record" /\ readable
    /\ person' = [person EXCEPT ![p] =
            [step |-> "write", pair |-> @.pair, owed |-> @.owed,
             read |-> visits, ts |-> WholeSecond(clock)]]
    /\ UNCHANGED <<clock, visits, readable, drips, lost, kills>>

\* Mutant: the file holds the last visit only.
VisitsWrittenLastOnly(read, visit) == {visit}

VisitsWritten(read, visit) == read \cup {visit}

\* record, second half: state_put writes the whole file.
WriteState(p) ==
    /\ person[p].step = "write"
    /\ visits' = VisitsWritten(person[p].read, [pair |-> person[p].pair, ts |-> person[p].ts])
    /\ readable' = TRUE
    /\ person' = [person EXCEPT ![p] = Idle]
    /\ UNCHANGED <<clock, drips, lost, kills>>

\* The session is left or the process killed before the file is touched: a drip
\* that was taken stays unrecorded, the file as it was.
Interrupted(p) ==
    /\ person[p] # Idle /\ kills < MaxKills
    /\ kills' = kills + 1
    /\ lost' = lost \cup person[p].owed
    /\ person' = [person EXCEPT ![p] = Idle]
    /\ UNCHANGED <<clock, visits, readable, drips>>

\* write_text truncates the file before it writes: every visit goes with it, and
\* each later command raises.
KilledWhileWriting(p) ==
    /\ person[p].step = "write" /\ kills < MaxKills
    /\ kills' = kills + 1
    /\ visits' = {} /\ readable' = FALSE
    /\ lost' = drips
    /\ person' = [person EXCEPT ![p] = Idle]
    /\ UNCHANGED <<clock, drips>>

TimePasses ==
    /\ clock < LastTick
    /\ clock' = clock + 1
    /\ UNCHANGED <<visits, readable, drips, lost, person, kills>>

ScriptInit ==
    /\ clock = 0 /\ kills = 0
    /\ visits = {} /\ readable = TRUE /\ drips = {} /\ lost = {}
    /\ person = [p \in People |-> Idle]

ScriptNext ==
    \/ TimePasses
    \/ \E p \in People :
          \/ Advise(p) \/ VisitFaucet(p) \/ ParkVisit(p)
          \/ ReadState(p) \/ WriteState(p)
          \/ Interrupted(p) \/ KilledWhileWriting(p)

ScriptSpec == ScriptInit /\ [][ScriptNext]_scriptVars

-------------------------------------------------------------------------------
(* Properties *)

\* READY is wrong for two reasons only: the record of a drip was cut off by a kill, or
\* the cooldown has less than a second to run ("record it so rate limits are
\* respected", FAUCET-RUNBOOK.md).  It relates the file, as a later session reads it,
\* to what the faucets have paid out: a kill costs the one visit in hand, never an
\* earlier one of a file that can still be read, and no cooldown starts before its drip.
RefusalsExplained ==
    \A p \in People : person[p].step = "refused" =>
        \A d \in drips \ lost :
            d.pair = person[p].pair => clock - d.ts > Cooldown[d.pair[1]] - Second
===============================================================================
