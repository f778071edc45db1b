----------------------------- MODULE ControlPanel -----------------------------
(***************************************************************************)
(* The operator's control panel (service/control_panel): its CLI and its   *)
(* HTTP shell check a request, build the `cast send` command for it, and   *)
(* show the command or run it with the operator's key.  One wager is       *)
(* followed; everybody else keeps using it directly.                       *)
(***************************************************************************)
EXTENDS EnumeratedWager

CONSTANTS
    Operator,       \* the account of --private-key
    SeedIndices,    \* the entries of seed_outcome_indices
    AllowExecute    \* --allow-execute of the HTTP shell

\* The options are the bits of the masks, counted from 0.  The bounds leave room for
\* what the panel sends: its default policy, and one seed.
ASSUME PanelAssumption ==
    /\ Operator \in Bettors /\ Bits \subseteq Nat
    /\ SeedIndices \subseteq Nat /\ AllowExecute \in BOOLEAN
    /\ "SINGLE_WINNER" \in Policies /\ 0 \in PolicyParams /\ 1 \in 1..MaxBatch

VARIABLE last   \* the request the last step answered, if it was one of the panel

panelVars == <<vars, last>>

NoRequest == [reply |-> "none"]

\* An integer as a mask.
BitsOf(n) == {bit \in Bits : (n \div 2^bit) % 2 = 1}

-------------------------------------------------------------------------------
(* create-wager and create-freeform-wager *)

Seeds == {<<>>} \cup {<<[index |-> i, amount |-> a]>> : i \in SeedIndices, a \in StakeSizes}

CreateRequests ==
    [kind : {"enumerated"}, policy : Policies, k : PolicyParams, closeTime : CloseTimes,
     window : Windows, closer : Closers, resCloser : Closers, seeds : Seeds]
    \cup
    [kind : {"freeform"}, closeTime : CloseTimes, window : Windows,
     closer : Closers, resCloser : Closers]

\* Mutant: an index goes to the factory as it is.
SeedMaskRaw(index) == BitsOf(index)

SeedMask(index) == {index}

SeedBets(req) ==
    [i \in DOMAIN req.seeds |->
        [mask |-> SeedMask(req.seeds[i].index), amount |-> req.seeds[i].amount]]

\* Mutant: the closers are asked for although the clocks run.
LifecycleCheckedAlways(req) == req.closer # NoAddress /\ req.resCloser # NoAddress

LifecycleChecked(req) ==
    /\ req.closeTime = 0 => req.closer # NoAddress
    /\ req.window = 0 => req.resCloser # NoAddress

PanelAcceptsCreate(req) ==
    /\ LifecycleChecked(req)
    /\ req.kind = "enumerated" =>
          \A i \in DOMAIN req.seeds :
              /\ req.seeds[i].amount > 0
              /\ SeedMask(req.seeds[i].index) \subseteq Options

\* The HTTP shell does not read a policy from the payload, whatever is in it: the
\* builder's defaults are sent (web.py says it "mirrors the CLI commands").
PolicyPassed(via, req) == IF via = "web" THEN "SINGLE_WINNER" ELSE req.policy
ParamPassed(via, req) == IF via = "web" THEN 0 ELSE req.k

\* What the factory would say to the command, seeds given as masks.
FactoryAccepts(req, bets) ==
    /\ LifecycleAccepted(req.closeTime, req.window, req.closer, req.resCloser)
    /\ FeeConfigAccepted
    /\ req.kind = "enumerated" =>
          /\ PolicyParamAccepted(req.policy, req.k)
          /\ \A i \in DOMAIN bets :
                TicketAccepted(req.policy, bets[i].mask) /\ bets[i].amount > 0

-------------------------------------------------------------------------------
(* Showing or running a command *)

\* The CLI runs what it is told to; the shell wants its flag and a valid token.
Reply(via, execute, authorized) ==
    IF ~execute THEN "command"
    ELSE IF via = "cli" THEN "sent"
    ELSE IF ~AllowExecute THEN "execution disabled"
    ELSE IF ~authorized THEN "unauthorized"
    ELSE "sent"

Answered(via, req, reply) ==
    last' = [reply |-> reply, via |-> via, asked |-> req]

\* A transaction that is sent is executed, or reverts or is dropped: then cast
\* exits with an error and the panel reports it.
PanelCreate(via, req, execute, authorized) ==
    IF ~PanelAcceptsCreate(req)
    THEN Answered(via, req, "refused") /\ UNCHANGED vars
    ELSE LET reply == Reply(via, execute, authorized)
         IN  /\ Answered(via, req, reply)
             /\ \/ UNCHANGED vars
                \/ /\ reply = "sent" /\ req.kind = "enumerated"
                   /\ CreateEnumeratedWager(Operator, PolicyPassed(via, req),
                        ParamPassed(via, req), req.closeTime, req.window, req.closer,
                        req.resCloser, SeedBets(req))

Actions == {"close-betting", "close-resolution-window", "resolve", "retract",
            "expire", "claim", "withdraw-fees"}

ActionRequests ==
    {[kind |-> action] : action \in Actions \ {"resolve"}}
    \cup {[kind |-> "resolve", index |-> <<>>]}
    \cup {[kind |-> "resolve", index |-> <<i>>] : i \in SeedIndices}

\* resolve needs an index; it reaches the wager as the winning mask.
Call(req) ==
    \/ req.kind = "close-betting" /\ CloseBetting(Operator) /\ UNCHANGED enumeratedVars
    \/ /\ req.kind = "close-resolution-window"
       /\ CloseResolutionWindow(Operator)
       /\ UNCHANGED enumeratedVars
    \/ req.kind = "resolve" /\ Resolve(Operator, BitsOf(req.index[1]))
    \/ req.kind = "retract" /\ Retract(Operator) /\ UNCHANGED enumeratedVars
    \/ req.kind = "expire" /\ Expire /\ UNCHANGED enumeratedVars
    \/ req.kind = "claim" /\ Claim(Operator)
    \/ /\ req.kind = "withdraw-fees" /\ Operator \in FeeRecipients
       /\ WithdrawFees(Operator)
       /\ UNCHANGED enumeratedVars

PanelAction(via, req, execute, authorized) ==
    IF req.kind = "resolve" /\ req.index = <<>>
    THEN Answered(via, req, "refused") /\ UNCHANGED vars
    ELSE LET reply == Reply(via, execute, authorized)
         IN  /\ Answered(via, req, reply)
             /\ UNCHANGED vars \/ (reply = "sent" /\ Call(req))

PanelInit == Init /\ last = NoRequest

\* Bound: one request between two steps of the others, who may send the same calls.
PanelNext ==
    \/ Next /\ last' = NoRequest
    \/ last = NoRequest /\ \E via \in {"web", "cli"}, execute, authorized \in BOOLEAN :
          \/ \E req \in CreateRequests :
                state = "Undeployed" /\ PanelCreate(via, req, execute, authorized)
          \/ \E req \in ActionRequests :
                state # "Undeployed" /\ PanelAction(via, req, execute, authorized)

PanelSpec == PanelInit /\ [][PanelNext]_panelVars

-------------------------------------------------------------------------------
(* Properties *)

IsCreate == last # NoRequest /\ last.asked.kind \in {"enumerated", "freeform"}

\* The panel turns no wager away that the factory would create: its checks are a
\* subset of those of the contract, in every combination of clocks, closers,
\* policies and seeds.
PanelRefusesOnlyReverts ==
    IsCreate /\ last.reply = "refused" => ~FactoryAccepts(last.asked, SeedBets(last.asked))

CreatedByPanel ==
    state = "Undeployed" /\ state' = "Open" /\ last' # NoRequest

\* A wager created through the panel has the clocks and closers of the request, the
\* seeds are on the outcomes the request names ("each index i is promoted to the
\* single-outcome ticket bitmask 1 << i", commands.py), and the CLI passes the payoff
\* policy and its k on.  Nothing is said of the policy of a request to the HTTP shell,
\* which drops it.
CreatedAsAsked ==
    [][CreatedByPanel =>
        LET req == last'.asked
        IN  /\ <<bettingCloseTime', resolutionWindow', bettingCloser', resolutionCloser'>>
                 = <<req.closeTime, req.window, req.closer, req.resCloser>>
            /\ last'.via = "cli" => <<payoffPolicy', policyParam'>> = <<req.policy, req.k>>
            /\ \A i \in DOMAIN req.seeds :
                  betsByMask'[Operator][{req.seeds[i].index}] = req.seeds[i].amount]_panelVars
===============================================================================
