---------------------------- MODULE Keepers_proofs ----------------------------
(***************************************************************************)
(* Keepers for any wagers, terms, decisions and clocks: what a row of any  *)
(* age still says of its contract, and the properties that rest on it.     *)
(***************************************************************************)
EXTENDS Keepers, FiniteSetTheorems, TLAPS

-------------------------------------------------------------------------------
(* The inductive invariant *)

HasTerms(c) ==
    c = [state |-> c.state, closeTime |-> c.closeTime, window |-> c.window, mode |-> c.mode,
         resolver |-> c.resolver, closedAt |-> c.closedAt, windowClosed |-> c.windowClosed,
         winner |-> c.winner]

\* An authority close lies in the past and before the scheduled one; the window is
\* not closed, and the wager not final, before betting is closed.
ContractSound(c, t) ==
    \/ c = NoWager
    \/ /\ HasTerms(c) /\ c.state \in {"Open", "Resolved", "Retracted"}
       /\ c.closeTime \in Nat /\ c.window \in Nat /\ c.mode \in {"enumerated", "freeform"}
       /\ c.windowClosed \in BOOLEAN
       /\ c.closedAt # NoTime =>
            c.closedAt \in 1..t /\ (c.closeTime # 0 => c.closedAt < c.closeTime)
       /\ c.windowClosed \/ c.state # "Open" =>
            c.closedAt # NoTime \/ (c.closeTime # 0 /\ t >= c.closeTime)

\* The row shows the terms of c, and what an earlier moment left of the rest.
RowSound(r, c) ==
    \/ r = NoRow
    \/ /\ c # NoWager
       /\ r.betting_close_time = c.closeTime /\ r.resolution_window = c.window
       /\ r.resolver = c.resolver /\ r.protocol_version = c.mode
       /\ r.betting_closed_at \in {NoTime, c.closedAt}
       /\ r.resolution_window_closed \in BOOLEAN
       /\ r.resolution_window_closed => c.windowClosed

WagersTyped ==
    /\ setting \in Settings /\ now \in Nat \ {0}
    /\ contract = [w \in Wagers |-> contract[w]]
    /\ row = [w \in Wagers |-> row[w]]

WagersInv ==
    /\ WagersTyped
    /\ \A w \in Wagers : ContractSound(contract[w], now) /\ RowSound(row[w], contract[w])

\* What the sweeper still has to send was expirable, if its clock is the chain's.
SweepInv ==
    /\ sweep \in Seq(Wagers)
    /\ setting.skews = {0} =>
         \A i \in DOMAIN sweep : ExpireAccepted(sweep[i]) \/ IsFinal(sweep[i])

\* Every candidate of a /run-once carries a decision of the file and the mode of its
\* wager.
ServiceInv ==
    /\ decisions = [w \in Wagers |-> decisions[w]] /\ carried = [w \in Wagers |-> carried[w]]
    /\ \A w \in Wagers : decisions[w] = NoDecision \/ decisions[w] \in setting.decisions
    /\ run = [t \in Threads |-> run[t]]
    /\ \A t \in Threads :
        /\ run[t] \in Seq([wager : Wagers, decision : setting.decisions,
                           mode : {"enumerated", "freeform"}])
        /\ \A i \in DOMAIN run[t] : /\ Deployed(run[t][i].wager)
                                    /\ run[t][i].mode = contract[run[t][i].wager].mode

IInv == WagersInv /\ SweepInv /\ ServiceInv

\* A wager that the service resolved is final, with the winner its decision meant.
CarriedInv ==
    \A w \in Wagers : carried[w].action = "resolve" =>
        /\ IsFinal(w)
        /\ contract[w].winner = Intended(carried[w], contract[w].mode)

-------------------------------------------------------------------------------
(* The clocks of a wager *)

LEMMA NoTimeIsNoTime == NoTime \notin Nat
BY DEF NoTime

LEMMA ClockBettingClosed ==
    ASSUME NEW w
    PROVE  Clock(w)!BettingClosed <=>
             \/ contract[w].closedAt # NoTime
             \/ contract[w].closeTime # 0 /\ now >= contract[w].closeTime
BY DEF Clock!BettingClosed

\* The anchor is the authority's close, or else the scheduled one; with an anchor the
\* window is over as soon as it is no longer open.
LEMMA ClockWindow ==
    ASSUME WagersInv, NEW w \in Wagers, Deployed(w), Clock(w)!BettingClosed
    PROVE  /\ Clock(w)!BettingClosedAt =
                IF contract[w].closedAt # NoTime THEN contract[w].closedAt
                ELSE contract[w].closeTime
           /\ Clock(w)!BettingClosedAt \in Nat \ {0}
           /\ Clock(w)!ResolutionWindowOver <=>
                \/ contract[w].windowClosed
                \/ contract[w].window # 0 /\ now > Clock(w)!BettingClosedAt + contract[w].window
           /\ Clock(w)!ResolutionWindowOpen <=> ~Clock(w)!ResolutionWindowOver
<1>1. /\ ContractSound(contract[w], now) /\ contract[w] # NoWager /\ now \in Nat
  BY DEF WagersInv, WagersTyped, Deployed, NoWager
<1>2. /\ contract[w].closeTime \in Nat /\ contract[w].window \in Nat
      /\ contract[w].windowClosed \in BOOLEAN
      /\ contract[w].closedAt # NoTime => contract[w].closedAt \in 1..now
  BY <1>1 DEF ContractSound
<1>3. Clock(w)!BettingClosedAt = IF contract[w].closedAt # NoTime THEN contract[w].closedAt
                                 ELSE contract[w].closeTime
  BY DEF Clock!BettingClosedAt
<1>4. Clock(w)!BettingClosedAt \in Nat \ {0}
  <2>1. CASE contract[w].closedAt # NoTime
    BY <1>2, <1>3, <2>1
  <2>2. CASE contract[w].closedAt = NoTime
    BY <1>2, <1>3, <2>2, ClockBettingClosed
  <2>3. QED
    BY <2>1, <2>2
<1>5. Clock(w)!ResolutionWindowOver <=>
        \/ contract[w].windowClosed
        \/ contract[w].window # 0 /\ now > Clock(w)!BettingClosedAt + contract[w].window
  BY <1>4 DEF Clock!ResolutionWindowOver
<1>6. Clock(w)!ResolutionWindowOpen <=>
        /\ ~contract[w].windowClosed
        /\ contract[w].window = 0 \/ now <= Clock(w)!BettingClosedAt + contract[w].window
  BY <1>4 DEF Clock!ResolutionWindowOpen
<1>7. contract[w].window # 0 /\ now > Clock(w)!BettingClosedAt + contract[w].window <=>
        ~(contract[w].window = 0 \/ now <= Clock(w)!BettingClosedAt + contract[w].window)
  BY <1>1, <1>2, <1>4
<1>8. QED
  BY <1>3, <1>4, <1>5, <1>6, <1>7

-------------------------------------------------------------------------------
(* What a step may do to a wager *)

\* d is what later transactions made of c.
Later(c, d) ==
    c = d \/
      /\ c # NoWager => /\ d.closeTime = c.closeTime /\ d.window = c.window
                        /\ d.mode = c.mode /\ d.resolver = c.resolver
                        /\ c.closedAt \in {NoTime, d.closedAt}
                        /\ c.windowClosed => d.windowClosed
                        /\ c.state # "Open" => d.state = c.state /\ d.winner = c.winner
      /\ d # NoWager

\* Wager w changed, and no other.
WagerChanges(w, d) ==
    /\ contract' = [contract EXCEPT ![w] = d]
    /\ Later(contract[w], d) /\ ContractSound(d, now')
    /\ UNCHANGED <<setting, now, row>>

LEMMA TermsAre ==
    ASSUME NEW c, HasTerms(c)
    PROVE  DOMAIN c = {"state", "closeTime", "window", "mode", "resolver", "closedAt",
                       "windowClosed", "winner"}
BY DEF HasTerms

LEMMA WindowClosedIn ==
    ASSUME NEW c, HasTerms(c), NEW d, d = [c EXCEPT !.windowClosed = TRUE]
    PROVE  d = [state |-> c.state, closeTime |-> c.closeTime, window |-> c.window,
                mode |-> c.mode, resolver |-> c.resolver, closedAt |-> c.closedAt,
                windowClosed |-> TRUE, winner |-> c.winner]
<1>1. DOMAIN d = DOMAIN c /\ d = [x \in DOMAIN c |-> d[x]]
  BY DEF HasTerms
<1>2. d.windowClosed = TRUE /\ \A x \in DOMAIN c : x # "windowClosed" => d[x] = c[x]
  BY TermsAre
<1>3. QED
  BY <1>1, <1>2, TermsAre

LEMMA FinalIn ==
    ASSUME NEW c, HasTerms(c), NEW s, NEW winner, NEW d,
           d = [c EXCEPT !.state = s, !.winner = winner]
    PROVE  d = [state |-> s, closeTime |-> c.closeTime, window |-> c.window,
                mode |-> c.mode, resolver |-> c.resolver, closedAt |-> c.closedAt,
                windowClosed |-> c.windowClosed, winner |-> winner]
<1>1. DOMAIN d = DOMAIN c /\ d = [x \in DOMAIN c |-> d[x]]
  BY DEF HasTerms
<1>2. /\ d.state = s /\ d.winner = winner
      /\ \A x \in DOMAIN c : x \notin {"state", "winner"} => d[x] = c[x]
  BY TermsAre
<1>3. QED
  BY <1>1, <1>2, TermsAre

LEMMA NotOpen == NoWager.state = "Undeployed"
BY DEF NoWager

LEMMA CreateChanges ==
    ASSUME WagersInv, NEW w \in Wagers, Create(w)
    PROVE  \E d : WagerChanges(w, d)
<1>1. PICK c \in setting.closeTimes, d \in setting.windows,
           m \in setting.modes, r \in setting.resolvers :
        contract' = [contract EXCEPT ![w] =
            [state |-> "Open", closeTime |-> c, window |-> d, mode |-> m, resolver |-> r,
             closedAt |-> NoTime, windowClosed |-> FALSE, winner |-> NoWinner]]
  BY DEF Create
<1> DEFINE new == [state |-> "Open", closeTime |-> c, window |-> d, mode |-> m,
                   resolver |-> r, closedAt |-> NoTime, windowClosed |-> FALSE,
                   winner |-> NoWinner]
<1>2. IsSetting(setting)
  BY OpenWagersAssumption DEF WagersInv, WagersTyped
<1>3. c \in Nat /\ d \in Nat /\ m \in {"enumerated", "freeform"}
  BY <1>2 DEF IsSetting
<1>4. ContractSound(new, now')
  BY <1>3 DEF ContractSound, HasTerms
<1>5. contract[w] = NoWager
  <2>1. ContractSound(contract[w], now)
    BY DEF WagersInv
  <2>2. QED
    BY <2>1 DEF ContractSound, Create, Deployed
<1>6. Later(contract[w], new)
  <2>1. new # NoWager
    BY DEF NoWager
  <2>2. QED
    BY <1>5, <2>1 DEF Later
<1>7. WagerChanges(w, new)
  BY <1>1, <1>4, <1>6 DEF WagerChanges, Create
<1>8. QED
  BY <1>7

LEMMA CloseBettingChanges ==
    ASSUME WagersInv, NEW w \in Wagers, CloseBetting(w)
    PROVE  \E d : WagerChanges(w, d)
<1> DEFINE c == contract[w]
           new == [c EXCEPT !.closedAt = now]
<1>1. ContractSound(c, now) /\ c # NoWager /\ now \in Nat \ {0}
  BY NotOpen DEF WagersInv, WagersTyped, CloseBetting, Deployed
<1>2. c.closedAt = NoTime /\ (c.closeTime # 0 => now < c.closeTime)
  <2>1. ~(c.closedAt # NoTime \/ (c.closeTime # 0 /\ now >= c.closeTime))
    BY ClockBettingClosed DEF CloseBetting
  <2>2. QED
    BY <1>1, <2>1 DEF ContractSound
<1>3. new = [state |-> c.state, closeTime |-> c.closeTime, window |-> c.window,
             mode |-> c.mode, resolver |-> c.resolver, closedAt |-> now,
             windowClosed |-> c.windowClosed, winner |-> c.winner]
  <2>1. HasTerms(c)
    BY <1>1 DEF ContractSound
  <2>2. QED
    BY <2>1 DEF HasTerms
<1> HIDE DEF new
<1>4. contract' = [contract EXCEPT ![w] = new] /\ UNCHANGED <<setting, now, row>>
  BY DEF CloseBetting, new
<1>5. ContractSound(new, now')
  BY <1>1, <1>2, <1>3, <1>4, NoTimeIsNoTime DEF ContractSound, HasTerms
<1>6. Later(c, new)
  <2>1. new.state = c.state
    BY <1>3
  <2>2. new # NoWager
    BY <1>1, <2>1, NotOpen DEF ContractSound
  <2>3. QED
    BY <1>2, <1>3, <2>2 DEF Later
<1>7. WagerChanges(w, new)
  BY <1>4, <1>5, <1>6 DEF WagerChanges
<1>8. QED
  BY <1>7

LEMMA CloseResolutionWindowChanges ==
    ASSUME WagersInv, NEW w \in Wagers, CloseResolutionWindow(w)
    PROVE  \E d : WagerChanges(w, d)
<1> DEFINE c == contract[w]
           new == [c EXCEPT !.windowClosed = TRUE]
<1>1. ContractSound(c, now) /\ c # NoWager /\ now \in Nat \ {0}
  BY NotOpen DEF WagersInv, WagersTyped, CloseResolutionWindow, Deployed
<1>2. c.closedAt # NoTime \/ (c.closeTime # 0 /\ now >= c.closeTime)
  BY ClockBettingClosed DEF CloseResolutionWindow
<1>3. new = [state |-> c.state, closeTime |-> c.closeTime, window |-> c.window,
             mode |-> c.mode, resolver |-> c.resolver, closedAt |-> c.closedAt,
             windowClosed |-> TRUE, winner |-> c.winner]
  <2>1. HasTerms(c)
    BY <1>1 DEF ContractSound
  <2>2. QED
    BY <2>1, WindowClosedIn
<1> HIDE DEF new
<1>4. contract' = [contract EXCEPT ![w] = new] /\ UNCHANGED <<setting, now, row>>
  BY DEF CloseResolutionWindow, new
<1>5. ContractSound(new, now')
  BY <1>1, <1>2, <1>3, <1>4 DEF ContractSound, HasTerms
<1>6. Later(c, new)
  <2>1. new.state = c.state
    BY <1>3
  <2>2. new # NoWager
    BY <1>1, <2>1, NotOpen DEF ContractSound
  <2>3. QED
    BY <1>3, <2>2 DEF Later
<1>7. WagerChanges(w, new)
  BY <1>4, <1>5, <1>6 DEF WagerChanges
<1>8. QED
  BY <1>7

\* expire, resolve and retract alike.
LEMMA FinalisedChanges ==
    ASSUME WagersInv, NEW w \in Wagers, NEW s \in {"Resolved", "Retracted"}, NEW winner,
           contract[w].state = "Open", Clock(w)!BettingClosed,
           Finalised(w, s, winner), UNCHANGED <<setting, now, row>>
    PROVE  \E d : WagerChanges(w, d) /\ d.state = s /\ d.winner = winner
                  /\ d.mode = contract[w].mode
<1> DEFINE c == contract[w]
           new == [c EXCEPT !.state = s, !.winner = winner]
<1>1. ContractSound(c, now) /\ c # NoWager /\ now \in Nat \ {0}
  BY NotOpen DEF WagersInv, WagersTyped
<1>2. c.closedAt # NoTime \/ (c.closeTime # 0 /\ now >= c.closeTime)
  BY ClockBettingClosed
<1>3. new = [state |-> s, closeTime |-> c.closeTime, window |-> c.window,
             mode |-> c.mode, resolver |-> c.resolver, closedAt |-> c.closedAt,
             windowClosed |-> c.windowClosed, winner |-> winner]
  <2>1. HasTerms(c)
    BY <1>1 DEF ContractSound
  <2>2. QED
    BY <2>1, FinalIn
<1>4. contract' = [contract EXCEPT ![w] = new]
  <2>1. contract = [x \in Wagers |-> contract[x]]
    BY DEF WagersInv, WagersTyped
  <2>2. QED
    BY <2>1 DEF Finalised
<1> HIDE DEF new
<1>5. ContractSound(new, now')
  BY <1>1, <1>2, <1>3 DEF ContractSound, HasTerms
<1>6. Later(c, new)
  <2>1. new # NoWager
    BY <1>3, NotOpen
  <2>2. QED
    BY <1>3, <2>1 DEF Later
<1>7. WagerChanges(w, new) /\ new.state = s /\ new.winner = winner /\ new.mode = c.mode
  BY <1>3, <1>4, <1>5, <1>6 DEF WagerChanges
<1>8. QED
  BY <1>7
-------------------------------------------------------------------------------
(* What a step may do to all of them *)

\* Time and the wagers only move forward.
WagersMove ==
    /\ setting' = setting /\ now' \in Nat \ {0} /\ now <= now'
    /\ contract' = [w \in Wagers |-> contract'[w]]
    /\ \A w \in Wagers : Later(contract[w], contract'[w]) /\ ContractSound(contract'[w], now')

LEMMA SoundLater ==
    ASSUME NEW c, NEW t \in Nat, NEW u \in Nat, t <= u, ContractSound(c, t)
    PROVE  ContractSound(c, u)
BY DEF ContractSound

LEMMA LaterIsReflexive == \A c : Later(c, c)
BY DEF Later

LEMMA ChangesMove ==
    ASSUME WagersInv, NEW w \in Wagers, \E d : WagerChanges(w, d)
    PROVE  WagersMove /\ row' = row
<1>1. PICK d : WagerChanges(w, d)
  OBVIOUS
<1>2. contract = [x \in Wagers |-> contract[x]] /\ now \in Nat \ {0}
  BY DEF WagersInv, WagersTyped
<1>3. contract'[w] = d /\ \A x \in Wagers : x # w => contract'[x] = contract[x]
  BY <1>1, <1>2 DEF WagerChanges
<1>4. ASSUME NEW x \in Wagers
      PROVE  Later(contract[x], contract'[x]) /\ ContractSound(contract'[x], now')
  <2>1. CASE x = w
    BY <1>1, <1>3, <2>1 DEF WagerChanges
  <2>2. CASE x # w
    <3>1. contract'[x] = contract[x] /\ ContractSound(contract[x], now) /\ now' = now
      BY <1>1, <1>3, <2>2 DEF WagerChanges, WagersInv
    <3>2. QED
      BY <3>1, LaterIsReflexive
  <2>3. QED
    BY <2>1, <2>2
<1>5. contract' = [x \in Wagers |-> contract'[x]]
  BY <1>1, <1>2 DEF WagerChanges
<1>6. QED
  BY <1>1, <1>2, <1>4, <1>5 DEF WagersMove, WagerChanges

LEMMA StillMoves ==
    ASSUME WagersInv, UNCHANGED <<setting, contract>>, now' \in Nat, now <= now'
    PROVE  WagersMove
<1>1. now \in Nat \ {0} /\ contract = [w \in Wagers |-> contract[w]]
  BY DEF WagersInv, WagersTyped
<1>2. \A w \in Wagers : ContractSound(contract[w], now)
  BY DEF WagersInv
<1>3. \A w \in Wagers : Later(contract[w], contract'[w])
  BY LaterIsReflexive
<1>4. \A w \in Wagers : ContractSound(contract'[w], now')
  BY <1>1, <1>2, SoundLater
<1>5. QED
  BY <1>1, <1>3, <1>4 DEF WagersMove

\* A row that was sound stays so while its wager moves on, and a fresh row is sound.
LEMMA RowStaysSound ==
    ASSUME NEW r, NEW c, NEW d, RowSound(r, c), Later(c, d)
    PROVE  RowSound(r, d)
BY DEF RowSound, Later

LEMMA FreshRowSound ==
    ASSUME NEW c, NEW t, ContractSound(c, t), c # NoWager
    PROVE  RowSound(RowOf(c), c)
BY DEF RowSound, RowOf, ContractSound

LEMMA MovePreservesWagersInv ==
    ASSUME WagersInv, WagersMove, row' = row \/ \E w \in Wagers : Sync(w)
    PROVE  WagersInv'
<1>1. row' = [w \in Wagers |-> row'[w]]
  BY DEF Sync, WagersInv, WagersTyped
<1>2. WagersTyped'
  BY <1>1 DEF WagersInv, WagersTyped, WagersMove
<1>3. ASSUME NEW w \in Wagers
      PROVE  RowSound(row'[w], contract'[w])
  <2>1. /\ RowSound(row[w], contract[w]) /\ ContractSound(contract[w], now)
        /\ Later(contract[w], contract'[w])
    BY DEF WagersInv, WagersMove
  <2>2. CASE row'[w] = row[w]
    BY <2>1, <2>2, RowStaysSound
  <2>3. CASE row'[w] # row[w]
    <3>1. PICK x \in Wagers : Sync(x)
      BY <2>3
    <3>2. row'[w] = RowOf(contract[w]) /\ contract[w] # NoWager /\ contract' = contract
      BY <2>3, <3>1, NotOpen DEF Sync, Deployed, WagersInv, WagersTyped
    <3>3. QED
      BY <2>1, <3>2, FreshRowSound
  <2>4. QED
    BY <2>2, <2>3
<1>4. QED
  BY <1>2, <1>3 DEF WagersInv, WagersMove

LEMMA ThreadsOfSetting ==
    ASSUME IInv
    PROVE  setting.threads \subseteq Threads
BY OpenWagersAssumption DEF IInv, WagersInv, WagersTyped, IsSetting

LEMMA HeadOfRun ==
    ASSUME IInv, NEW t \in Threads, run[t] # <<>>
    PROVE  /\ run[t][1].wager \in Wagers /\ run[t][1].decision \in setting.decisions
           /\ Deployed(run[t][1].wager) /\ run[t][1].mode = contract[run[t][1].wager].mode
           /\ run[t][1].mode \in {"enumerated", "freeform"}
<1> DEFINE Candidates == [wager : Wagers, decision : setting.decisions,
                          mode : {"enumerated", "freeform"}]
<1>1. \A c \in Candidates : /\ c.wager \in Wagers /\ c.decision \in setting.decisions
                            /\ c.mode \in {"enumerated", "freeform"}
  OBVIOUS
<1> HIDE DEF Candidates
<1>2. run[t] \in Seq(Candidates)
  BY DEF IInv, ServiceInv, Candidates
<1>3. 1 \in DOMAIN run[t] /\ run[t][1] \in Candidates
  BY <1>2
<1>4. QED
  BY <1>1, <1>3 DEF IInv, ServiceInv

LEMMA KeepersMove ==
    ASSUME IInv, [Next]_vars
    PROVE  WagersMove /\ WagersInv'
<1>1. WagersInv /\ now \in Nat \ {0}
  BY DEF IInv, WagersInv, WagersTyped
<1>2. ASSUME NEW w \in Wagers, Create(w) \/ CloseBetting(w) \/ CloseResolutionWindow(w)
      PROVE  WagersMove /\ row' = row
  BY <1>1, <1>2, CreateChanges, CloseBettingChanges, CloseResolutionWindowChanges, ChangesMove
<1>3. ASSUME NEW w \in Wagers, NEW s \in {"Resolved", "Retracted"}, NEW winner,
             contract[w].state = "Open", Clock(w)!BettingClosed,
             Finalised(w, s, winner), UNCHANGED <<setting, now, row>>
      PROVE  WagersMove /\ row' = row
  <2>1. \E d : WagerChanges(w, d)
    BY <1>1, <1>3, FinalisedChanges
  <2>2. QED
    BY <1>1, <2>1, ChangesMove
<1>4. ASSUME UNCHANGED wagerVars
      PROVE  WagersMove /\ row' = row
  BY <1>1, <1>4, StillMoves DEF wagerVars
<1>5. WagersMove /\ (row' = row \/ \E w \in Wagers : Sync(w))
  <2>1. CASE Tick
    BY <1>1, <2>1, StillMoves DEF Tick
  <2>2. ASSUME NEW w \in Wagers, ExpireByAnyone(w)
        PROVE  WagersMove /\ row' = row
    BY <1>3, <2>2 DEF ExpireByAnyone, ExpireAccepted
  <2>3. ASSUME NEW w \in Wagers, Sync(w)
        PROVE  WagersMove
    BY <1>1, <2>3, StillMoves DEF Sync
  <2>4. CASE SweepNext
    <3>1. sweep[1] \in Wagers
      BY <2>4 DEF SweepNext, IInv, SweepInv
    <3>2. CASE ExpireAccepted(sweep[1])
      BY <1>3, <2>4, <3>1, <3>2 DEF SweepNext, ExpireAccepted
    <3>3. CASE ~ExpireAccepted(sweep[1])
      BY <1>4, <2>4, <3>3 DEF SweepNext, wagerVars
    <3>4. QED
      BY <3>2, <3>3
  <2>5. ASSUME NEW t \in Threads, RunNext(t)
        PROVE  WagersMove /\ row' = row
    <3>1. run[t][1].wager \in Wagers
      BY <2>5, HeadOfRun DEF RunNext
    <3>2. CASE Lands(run[t][1])
      <4>1. /\ contract[run[t][1].wager].state = "Open" /\ Clock(run[t][1].wager)!BettingClosed
            /\ UNCHANGED <<setting, now, row>>
        BY <2>5, <3>2 DEF RunNext, Lands, ResolverAccepted
      <4>2. \E winner : \E s \in {"Resolved", "Retracted"} :
                Finalised(run[t][1].wager, s, winner)
        BY <2>5, <3>2 DEF RunNext
      <4>3. QED
        BY <1>3, <3>1, <4>1, <4>2
    <3>3. CASE ~Lands(run[t][1])
      BY <1>4, <2>5, <3>3 DEF RunNext, wagerVars
    <3>4. QED
      BY <3>2, <3>3
  <2>6. CASE WagersStep
    BY <1>2, <2>1, <2>2, <2>3, <2>6 DEF WagersStep
  <2>7. CASE StartSweep \/ SweepLost \/ SweepDryRun
    BY <1>4, <2>7 DEF StartSweep, SweepLost, SweepDryRun
  <2>8. CASE EditDecisions \/ \E t \in Threads : RunOnce(t) \/ RunLost(t)
    BY <1>4, <2>8 DEF EditDecisions, RunOnce, RunLost
  <2>9. CASE UNCHANGED vars
    BY <1>4, <2>9 DEF vars
  <2>10. QED
    BY ThreadsOfSetting, <2>4, <2>5, <2>6, <2>7, <2>8, <2>9 DEF Next, SweepStep, ServiceStep
<1>6. QED
  BY <1>1, <1>5, MovePreservesWagersInv
-------------------------------------------------------------------------------
(* What the keepers still have to send *)

\* A wager that may be expired may be until it is final.
LEMMA ExpirableUntilFinal ==
    ASSUME WagersInv, WagersMove, WagersInv', NEW w \in Wagers,
           ExpireAccepted(w) \/ IsFinal(w)
    PROVE  (ExpireAccepted(w) \/ IsFinal(w))'
<1>1. /\ Later(contract[w], contract'[w]) /\ ContractSound(contract'[w], now')
      /\ ContractSound(contract[w], now)
      /\ now \in Nat /\ now' \in Nat /\ now <= now'
  BY DEF WagersInv, WagersTyped, WagersMove
<1>2. contract[w] # NoWager
  BY NotOpen DEF ExpireAccepted, IsFinal
<1>3. CASE contract[w].state # "Open"
  BY <1>1, <1>2, <1>3 DEF Later, ExpireAccepted, IsFinal
<1>4. CASE contract[w].state = "Open" /\ contract'[w].state = "Open"
  <2>1. Clock(w)!BettingClosed /\ Clock(w)!ResolutionWindowOver
    BY <1>4 DEF ExpireAccepted, IsFinal
  <2>2. /\ contract'[w].closeTime = contract[w].closeTime
        /\ contract'[w].window = contract[w].window
        /\ contract[w].closedAt \in {NoTime, contract'[w].closedAt}
        /\ contract[w].windowClosed => contract'[w].windowClosed
    BY <1>1, <1>2 DEF Later
  <2>3. /\ contract[w].closeTime \in Nat /\ contract[w].window \in Nat
        /\ contract'[w].windowClosed \in BOOLEAN
        /\ contract[w].closedAt # NoTime => contract[w].closedAt \in Nat
        /\ contract'[w].closedAt # NoTime =>
             /\ contract'[w].closedAt \in Nat \ {0}
             /\ contract'[w].closeTime # 0 => contract'[w].closedAt < contract'[w].closeTime
    BY <1>1, <1>2, <1>4, NotOpen DEF ContractSound
  <2>4. \/ contract'[w].closedAt # NoTime
        \/ contract'[w].closeTime # 0 /\ now' >= contract'[w].closeTime
    <3>1. \/ contract[w].closedAt # NoTime
          \/ contract[w].closeTime # 0 /\ now >= contract[w].closeTime
      BY <2>1, ClockBettingClosed
    <3>2. QED
      BY <1>1, <2>2, <2>3, <3>1
  <2>5. (Clock(w)!BettingClosed)'
    BY <2>4 DEF Clock!BettingClosed
  <2>6. (Clock(w)!ResolutionWindowOver)'
    <3>1. Deployed(w)
      BY <1>4 DEF Deployed
    <3>2. \/ contract[w].windowClosed
          \/ contract[w].window # 0 /\ now > Clock(w)!BettingClosedAt + contract[w].window
      BY <2>1, <3>1, ClockWindow
    <3>3. CASE contract[w].windowClosed
      BY <2>2, <3>3 DEF Clock!ResolutionWindowOver
    <3>4. CASE contract[w].window # 0
               /\ now > Clock(w)!BettingClosedAt + contract[w].window
      <4>1. Clock(w)!BettingClosedAt = (IF contract[w].closedAt # NoTime
                                        THEN contract[w].closedAt ELSE contract[w].closeTime)
            /\ Clock(w)!BettingClosedAt \in Nat \ {0}
        BY <2>1, <3>1, ClockWindow
      <4>2. (Clock(w)!BettingClosedAt)' = (IF contract'[w].closedAt # NoTime
                                        THEN contract'[w].closedAt ELSE contract'[w].closeTime)
        BY <2>5 DEF Clock!BettingClosedAt
      <4>3. (Clock(w)!BettingClosedAt)' \in Nat \ {0}
            /\ (Clock(w)!BettingClosedAt)' <= Clock(w)!BettingClosedAt
        BY <2>2, <2>3, <2>4, <4>1, <4>2
      <4>4. QED
        BY <1>1, <2>2, <2>3, <3>4, <4>1, <4>3 DEF Clock!ResolutionWindowOver
    <3>5. QED
      BY <3>2, <3>3, <3>4
  <2>7. QED
    BY <1>4, <2>5, <2>6 DEF ExpireAccepted
<1>5. CASE contract[w].state = "Open" /\ contract'[w].state # "Open"
  BY <1>1, <1>5, NotOpen DEF Later, ContractSound, IsFinal
<1>6. QED
  BY <1>3, <1>4, <1>5

\* A row that calls a wager expirable is right about it, however old.
LEMMA CandidateIsRight ==
    ASSUME WagersInv, NEW w \in Wagers, ExpireCandidate(row[w], now)
    PROVE  ExpireAccepted(w) \/ IsFinal(w)
<1> DEFINE r == row[w]
           c == contract[w]
<1>1. ContractSound(c, now) /\ RowSound(r, c) /\ now \in Nat
  BY DEF WagersInv, WagersTyped
<1>2. r # NoRow
  BY DEF ExpireCandidate, NoRow
<1>3. /\ c # NoWager
      /\ r.betting_close_time = c.closeTime /\ r.resolution_window = c.window
      /\ r.betting_closed_at \in {NoTime, c.closedAt}
      /\ r.resolution_window_closed => c.windowClosed
  BY <1>1, <1>2 DEF RowSound
<1>4. /\ c.state \in {"Open", "Resolved", "Retracted"}
      /\ c.closeTime \in Nat /\ c.window \in Nat /\ c.windowClosed \in BOOLEAN
      /\ c.closedAt # NoTime =>
           c.closedAt \in 1..now /\ (c.closeTime # 0 => c.closedAt < c.closeTime)
      /\ c.windowClosed => c.closedAt # NoTime \/ (c.closeTime # 0 /\ now >= c.closeTime)
  BY <1>1, <1>3 DEF ContractSound
<1>5. SUFFICES ASSUME c.state = "Open"
               PROVE  Clock(w)!BettingClosed /\ Clock(w)!ResolutionWindowOver
  BY <1>4 DEF ExpireAccepted, IsFinal
<1> HIDE DEF r, c
<1>6. \/ c.windowClosed
      \/ c.window # 0 /\ \/ c.closedAt # NoTime /\ c.closedAt + c.window < now
                         \/ c.closeTime # 0 /\ c.closeTime + c.window < now
  <2>1. \/ r.resolution_window_closed
        \/ r.resolution_window > 0 /\
             \/ r.betting_closed_at # NoTime /\ r.betting_closed_at + r.resolution_window < now
             \/ r.betting_close_time > 0 /\ r.betting_close_time + r.resolution_window < now
    BY DEF ExpireCandidate, r
  <2>2. QED
    BY <1>3, <1>4, <2>1
<1>7. Clock(w)!BettingClosed
  <2>1. c.closedAt # NoTime \/ (c.closeTime # 0 /\ now >= c.closeTime)
    BY <1>1, <1>4, <1>6
  <2>2. QED
    BY <2>1, ClockBettingClosed DEF c
<1>8. Clock(w)!ResolutionWindowOver
  <2>1. /\ Clock(w)!BettingClosedAt = IF c.closedAt # NoTime THEN c.closedAt ELSE c.closeTime
        /\ Clock(w)!BettingClosedAt \in Nat
        /\ Clock(w)!ResolutionWindowOver <=>
             c.windowClosed \/ (c.window # 0 /\ now > Clock(w)!BettingClosedAt + c.window)
    BY <1>5, <1>7, ClockWindow DEF Deployed, c
  <2>2. CASE c.closedAt # NoTime
    BY <1>1, <1>4, <1>6, <2>1, <2>2
  <2>3. CASE c.closedAt = NoTime
    BY <1>1, <1>4, <1>6, <2>1, <2>3
  <2>4. QED
    BY <2>2, <2>3
<1>9. QED
  BY <1>7, <1>8

LEMMA OrdersType ==
    ASSUME NEW S, S \subseteq Wagers, NEW order \in Orders(S)
    PROVE  order \in Seq(S)
<1>1. Cardinality(S) \in Nat
  BY OpenWagersAssumption, FS_Subset, FS_CardinalityType
<1>2. QED
  BY <1>1 DEF Orders

LEMMA SweepInvStep ==
    ASSUME IInv, [Next]_vars
    PROVE  SweepInv'
<1>1. /\ WagersMove /\ WagersInv /\ WagersInv' /\ setting' = setting
      /\ sweep \in Seq(Wagers)
  BY KeepersMove DEF IInv, SweepInv, WagersMove
<1>2. CASE StartSweep
  <2>1. UNCHANGED <<setting, now, contract, row>>
    BY <1>2 DEF StartSweep, wagerVars
  <2>2. PICK skew \in setting.skews :
          sweep' \in Orders({w \in Wagers : ExpireCandidate(row[w], now + skew)})
    BY <1>2 DEF StartSweep
  <2> DEFINE S == {w \in Wagers : ExpireCandidate(row[w], now + skew)}
  <2>3. sweep' \in Seq(S) /\ S \subseteq Wagers
    BY <2>2, OrdersType
  <2>4. ASSUME setting.skews = {0}, NEW w \in S
        PROVE  w \in Wagers /\ (ExpireAccepted(w) \/ IsFinal(w))
    <3>1. skew = 0 /\ now \in Nat
      BY <2>4 DEF IInv, WagersInv, WagersTyped
    <3>2. w \in Wagers /\ ExpireCandidate(row[w], now)
      BY <3>1
    <3>3. QED
      BY <1>1, <3>2, CandidateIsRight
  <2>5. ASSUME NEW w, ExpireAccepted(w) \/ IsFinal(w)
        PROVE  ExpireAccepted(w)' \/ IsFinal(w)'
    BY <2>1, <2>5 DEF ExpireAccepted, IsFinal, Clock!BettingClosed, Clock!BettingClosedAt,
                      Clock!ResolutionWindowOver
  <2>6. ASSUME setting.skews = {0}, NEW i \in DOMAIN sweep'
        PROVE  sweep'[i] \in Wagers /\ (ExpireAccepted(sweep[i]) \/ IsFinal(sweep[i]))'
    <3>1. sweep'[i] \in S
      BY <2>3, <2>6
    <3>2. PICK w : w = sweep'[i]
      OBVIOUS
    <3>3. (ExpireAccepted(w) \/ IsFinal(w))'
      BY <2>4, <2>5, <2>6, <3>1, <3>2
    <3>4. QED
      BY <2>3, <3>1, <3>2, <3>3
  <2>7. QED
    BY <1>1, <2>3, <2>6 DEF SweepInv
<1>3. CASE sweep' = sweep \/ (sweep # <<>> /\ sweep' = Tail(sweep)) \/ sweep' = <<>>
  <2>1. sweep' \in Seq(Wagers)
    <3>1. CASE sweep # <<>> /\ sweep' = Tail(sweep)
      BY <1>1, <3>1
    <3>2. <<>> \in Seq(Wagers)
      OBVIOUS
    <3>3. QED
      BY <1>1, <1>3, <3>1, <3>2
  <2>2. \A i \in DOMAIN sweep' : \E j \in DOMAIN sweep : sweep'[i] = sweep[j]
    <3>1. CASE sweep' = sweep
      BY <3>1
    <3>2. CASE sweep # <<>> /\ sweep' = Tail(sweep)
      <4>1. \A i \in DOMAIN sweep' : i + 1 \in DOMAIN sweep /\ sweep'[i] = sweep[i + 1]
        BY <1>1, <3>2
      <4>2. QED
        BY <4>1
    <3>3. CASE sweep' = <<>>
      BY <3>3
    <3>4. QED
      BY <1>3, <3>1, <3>2, <3>3
  <2>3. ASSUME setting.skews = {0}, NEW i \in DOMAIN sweep'
        PROVE  (ExpireAccepted(sweep[i]) \/ IsFinal(sweep[i]))'
    <3>1. PICK j \in DOMAIN sweep : sweep'[i] = sweep[j]
      BY <2>2
    <3>2. sweep[j] \in Wagers /\ (ExpireAccepted(sweep[j]) \/ IsFinal(sweep[j]))
      BY <1>1, <2>3 DEF IInv, SweepInv
    <3>3. \A w \in Wagers : ExpireAccepted(w) \/ IsFinal(w) => (ExpireAccepted(w) \/ IsFinal(w))'
      BY <1>1, ExpirableUntilFinal
    <3>4. QED
      BY <3>1, <3>2, <3>3
  <2>4. QED
    BY <1>1, <2>1, <2>3 DEF SweepInv
<1>4. sweep' = sweep \/ (sweep # <<>> /\ sweep' = Tail(sweep)) \/ sweep' = <<>> \/ StartSweep
  BY DEF Next, vars, SweepStep, ServiceStep, SweepNext, SweepLost, SweepDryRun,
         EditDecisions, RunOnce, RunNext, RunLost
<1>5. QED
  BY <1>2, <1>3, <1>4

-------------------------------------------------------------------------------
(* The resolution service *)

AnyCandidate(s) == [wager : Wagers, decision : s.decisions, mode : {"enumerated", "freeform"}]

LEMMA LaterKeepsMode ==
    ASSUME WagersMove, NEW w \in Wagers, Deployed(w), WagersInv
    PROVE  Deployed(w)' /\ contract'[w].mode = contract[w].mode
<1>1. Later(contract[w], contract'[w]) /\ ContractSound(contract'[w], now')
  BY DEF WagersMove
<1>2. contract[w] # NoWager
  BY NotOpen DEF Deployed
<1>3. contract'[w] # NoWager /\ contract'[w].mode = contract[w].mode
  BY <1>1, <1>2 DEF Later
<1>4. contract'[w].state # "Undeployed"
  BY <1>1, <1>3 DEF ContractSound
<1>5. QED
  BY <1>3, <1>4 DEF Deployed

\* What /run-once picks: wagers of the index with a decision in the file.
LEMMA RunOnceType ==
    ASSUME IInv, NEW t \in Threads, RunOnce(t)
    PROVE  /\ run'[t] \in Seq(AnyCandidate(setting))
           /\ \A i \in DOMAIN run'[t] :
                Deployed(run'[t][i].wager) /\ run'[t][i].mode = contract[run'[t][i].wager].mode
<1>1. PICK skew \in setting.skews :
        \E order \in Orders({w \in Wagers : /\ Actionable(row[w], now + skew)
                                            /\ decisions[w] # NoDecision}) :
          run'[t] = [i \in DOMAIN order |-> [wager |-> order[i], decision |-> decisions[order[i]],
                                          mode |-> row[order[i]].protocol_version]]
  BY DEF RunOnce, IInv, ServiceInv
<1> DEFINE S == {w \in Wagers : Actionable(row[w], now + skew) /\ decisions[w] # NoDecision}
<1>2. PICK order \in Orders(S) :
        run'[t] = [i \in DOMAIN order |-> [wager |-> order[i], decision |-> decisions[order[i]],
                                        mode |-> row[order[i]].protocol_version]]
  BY <1>1
<1>3. order \in Seq(S)
  BY <1>2, OrdersType
<1>4. ASSUME NEW w \in S
      PROVE  /\ w \in Wagers /\ decisions[w] \in setting.decisions /\ Deployed(w)
             /\ row[w].protocol_version = contract[w].mode
             /\ contract[w].mode \in {"enumerated", "freeform"}
  <2>1. row[w] # NoRow
    BY DEF Actionable, NoRow
  <2>2. ContractSound(contract[w], now) /\ RowSound(row[w], contract[w])
    BY DEF IInv, WagersInv
  <2>3. contract[w] # NoWager /\ row[w].protocol_version = contract[w].mode
    BY <2>1, <2>2 DEF RowSound
  <2>4. QED
    BY <2>2, <2>3 DEF ContractSound, Deployed, IInv, ServiceInv
<1> HIDE DEF S
<1>5. /\ DOMAIN run'[t] = 1..Len(order) /\ Len(order) \in Nat
      /\ \A i \in DOMAIN run'[t] : order[i] \in S
  BY <1>2, <1>3
<1>6. ASSUME NEW i \in DOMAIN run'[t]
      PROVE  /\ run'[t][i] \in AnyCandidate(setting)
             /\ Deployed(run'[t][i].wager) /\ run'[t][i].mode = contract[run'[t][i].wager].mode
  <2>1. run'[t][i] = [wager |-> order[i], decision |-> decisions[order[i]],
                   mode |-> row[order[i]].protocol_version]
    BY <1>2
  <2>2. QED
    BY <1>4, <1>5, <2>1 DEF AnyCandidate
<1>7. run'[t] = [i \in 1..Len(order) |-> run'[t][i]]
  BY <1>2, <1>5
<1>8. QED
  BY <1>5, <1>6, <1>7

LEMMA RunInvStep ==
    ASSUME IInv, [Next]_vars, NEW t \in Threads
    PROVE  /\ run'[t] \in Seq(AnyCandidate(setting))
           /\ \A i \in DOMAIN run'[t] : /\ Deployed(run[t][i].wager)'
                                        /\ run'[t][i].mode = contract'[run'[t][i].wager].mode
<1>1. WagersMove /\ WagersInv
  BY KeepersMove DEF IInv
<1>2. /\ run[t] \in Seq(AnyCandidate(setting))
      /\ \A i \in DOMAIN run[t] : /\ run[t][i].wager \in Wagers /\ Deployed(run[t][i].wager)
                                  /\ run[t][i].mode = contract[run[t][i].wager].mode
  <2>1. run[t] \in Seq(AnyCandidate(setting))
    BY DEF IInv, ServiceInv, AnyCandidate
  <2>2. \A c \in AnyCandidate(setting) : c.wager \in Wagers
    BY DEF AnyCandidate
  <2>3. QED
    BY <2>1, <2>2 DEF IInv, ServiceInv
<1>3. /\ run'[t] \in Seq(AnyCandidate(setting))
      /\ \A i \in DOMAIN run'[t] : /\ run'[t][i].wager \in Wagers /\ Deployed(run'[t][i].wager)
                                   /\ run'[t][i].mode = contract[run'[t][i].wager].mode
  <2>1. CASE RunOnce(t)
    <3>1. \A c \in AnyCandidate(setting) : c.wager \in Wagers
      BY DEF AnyCandidate
    <3>2. \A i \in DOMAIN run'[t] : run'[t][i] \in AnyCandidate(setting)
      BY <2>1, RunOnceType
    <3>3. QED
      BY <2>1, <3>1, <3>2, RunOnceType
  <2>2. CASE run'[t] = run[t]
    BY <1>2, <2>2
  <2>3. CASE run[t] # <<>> /\ run'[t] = Tail(run[t])
    <3>1. \A i \in DOMAIN run'[t] : i + 1 \in DOMAIN run[t] /\ run'[t][i] = run[t][i + 1]
      BY <1>2, <2>3
    <3>2. run'[t] \in Seq(AnyCandidate(setting))
      BY <1>2, <2>3
    <3>3. QED
      BY <1>2, <3>1, <3>2
  <2>4. RunOnce(t) \/ run'[t] = run[t] \/ (run[t] # <<>> /\ run'[t] = Tail(run[t]))
    <3>1. \/ run' = run
          \/ \E u \in Threads :
                RunOnce(u) \/ (run[u] # <<>> /\ run' = [run EXCEPT ![u] = Tail(run[u])])
      BY ThreadsOfSetting
         DEF Next, vars, serviceVars, SweepStep, ServiceStep, StartSweep, SweepNext, SweepLost,
             SweepDryRun, EditDecisions, RunNext, RunLost
    <3>2. ASSUME NEW u \in Threads, RunOnce(u)
          PROVE  u = t \/ run'[t] = run[t]
      BY <3>2 DEF RunOnce, IInv, ServiceInv
    <3>3. ASSUME NEW u \in Threads, run' = [run EXCEPT ![u] = Tail(run[u])]
          PROVE  run'[t] = IF u = t THEN Tail(run[t]) ELSE run[t]
      BY <3>3 DEF IInv, ServiceInv
    <3>4. QED
      BY <3>1, <3>2, <3>3
  <2>5. QED
    BY <2>1, <2>2, <2>3, <2>4
<1>4. \A w \in Wagers : Deployed(w) => Deployed(w)' /\ contract'[w].mode = contract[w].mode
  BY <1>1, LaterKeepsMode
<1>5. QED
  BY <1>3, <1>4

LEMMA ServiceInvStep ==
    ASSUME IInv, [Next]_vars
    PROVE  ServiceInv'
<1>1. setting' = setting
  BY KeepersMove DEF WagersMove
<1>2. /\ decisions = [w \in Wagers |-> decisions[w]] /\ carried = [w \in Wagers |-> carried[w]]
      /\ \A w \in Wagers : decisions[w] = NoDecision \/ decisions[w] \in setting.decisions
  BY DEF IInv, ServiceInv
<1>3. EditDecisions \/ decisions' = decisions
  BY DEF Next, vars, serviceVars, SweepStep, ServiceStep, StartSweep, SweepNext, SweepLost,
         SweepDryRun, RunOnce, RunNext, RunLost
<1>4. /\ decisions' = [w \in Wagers |-> decisions'[w]]
      /\ \A w \in Wagers : decisions'[w] = NoDecision \/ decisions'[w] \in setting.decisions
  <2>1. CASE EditDecisions
    <3>1. PICK w \in setting.wagers, d \in setting.decisions \cup {NoDecision} :
            decisions' = [decisions EXCEPT ![w] = d]
      BY <2>1 DEF EditDecisions
    <3>2. QED
      BY <1>2, <3>1
  <2>2. QED
    BY <1>2, <1>3, <2>1
<1>5. carried' = [w \in Wagers |-> carried'[w]]
  <2>1. carried' = carried \/ \E w, d : carried' = [carried EXCEPT ![w] = d]
    BY DEF Next, vars, serviceVars, SweepStep, ServiceStep, StartSweep, SweepNext, SweepLost,
           SweepDryRun, EditDecisions, RunOnce, RunNext, RunLost
  <2>2. QED
    BY <1>2, <2>1
<1>6. run' = [t \in Threads |-> run'[t]]
  <2>1. run' = run \/ \E t, c : run' = [run EXCEPT ![t] = c]
    BY DEF Next, vars, serviceVars, SweepStep, ServiceStep, StartSweep, SweepNext, SweepLost,
           SweepDryRun, EditDecisions, RunOnce, RunNext, RunLost
  <2>2. run = [t \in Threads |-> run[t]]
    BY DEF IInv, ServiceInv
  <2>3. QED
    BY <2>1, <2>2
<1>7. QED
  BY <1>1, <1>4, <1>5, <1>6, RunInvStep DEF ServiceInv, AnyCandidate

\* What the operator wrote can be understood in one way only: no outcome given by its
\* index alone, no answer between blanks.
Unambiguous(d) == d.action = "resolve" =>
    /\ d.outcomeIndex # NoTime => d.winningMask # NoTime
    /\ Strip(d.winningAnswer) = d.winningAnswer

LEMMA ArgumentAsIntended ==
    ASSUME NEW d, NEW mode \in {"enumerated", "freeform"},
           Unambiguous(d), d.action = "resolve", CommandMade(d, mode)
    PROVE  WinnerOf(ResolveArgument(d, mode), mode) = Intended(d, mode)
<1>1. CASE mode = "freeform"
  BY <1>1 DEF Unambiguous, ResolveArgument, Intended
<1>2. CASE mode = "enumerated"
  <2>1. d.winningMask # NoTime
    BY <1>2 DEF Unambiguous, CommandMade, ResolveArgument
  <2>2. ResolveArgument(d, mode) = d.winningMask
    BY <1>2, <2>1 DEF ResolveArgument
  <2>3. QED
    BY <1>2, <2>1, <2>2 DEF Intended
<1>3. QED
  BY <1>1, <1>2

LEMMA CarriedInvStep ==
    ASSUME \A s \in Settings : \A d \in s.decisions : Unambiguous(d),
           IInv, CarriedInv, [Next]_vars
    PROVE  CarriedInv'
<1>1. WagersMove /\ WagersInv /\ WagersInv' /\ setting \in Settings
  BY KeepersMove DEF IInv, WagersInv, WagersTyped
<1>2. ASSUME NEW w \in Wagers, IsFinal(w)
      PROVE  /\ IsFinal(w)' /\ contract'[w].winner = contract[w].winner
             /\ contract'[w].mode = contract[w].mode
  <2>1. Later(contract[w], contract'[w]) /\ contract[w] # NoWager
    BY <1>1, <1>2, NotOpen DEF WagersMove, IsFinal
  <2>2. QED
    BY <1>2, <2>1 DEF Later, IsFinal
<1>3. ASSUME NEW w \in Wagers, carried'[w] = carried[w], carried[w].action = "resolve"
      PROVE  IsFinal(w)' /\ contract'[w].winner = Intended(carried'[w], contract'[w].mode)
  BY <1>2, <1>3 DEF CarriedInv
<1>4. CASE carried' = carried
  BY <1>3, <1>4 DEF CarriedInv
<1>5. ASSUME NEW t \in Threads, RunNext(t), Lands(run[t][1])
      PROVE  CarriedInv'
  <2> DEFINE c == run[t][1]
             x == c.wager
  <2>1. /\ x \in Wagers /\ c.decision \in setting.decisions /\ c.mode = contract[x].mode
        /\ c.mode \in {"enumerated", "freeform"}
    BY <1>5, HeadOfRun DEF RunNext
  <2>2. carried' = [carried EXCEPT ![x] = c.decision]
    BY <1>5 DEF RunNext
  <2>3. /\ contract[x].state = "Open" /\ Clock(x)!BettingClosed
        /\ CommandMade(c.decision, c.mode) /\ UNCHANGED <<setting, now, row>>
    BY <1>5 DEF RunNext, Lands, ResolverAccepted
  <2>4. ASSUME c.decision.action = "resolve"
        PROVE  /\ contract'[x].state = "Resolved"
               /\ contract'[x].winner = Intended(c.decision, contract'[x].mode)
    <3>1. Finalised(x, "Resolved", WinnerOf(ResolveArgument(c.decision, c.mode), c.mode))
      BY <1>5, <2>4 DEF RunNext
    <3>2. PICK d : /\ WagerChanges(x, d) /\ d.state = "Resolved" /\ d.mode = contract[x].mode
                   /\ d.winner = WinnerOf(ResolveArgument(c.decision, c.mode), c.mode)
      BY <1>1, <2>1, <2>3, <3>1, FinalisedChanges
    <3>3. contract'[x] = d
      BY <1>1, <2>1, <3>2 DEF WagerChanges, WagersInv, WagersTyped
    <3>4. d.winner = Intended(c.decision, c.mode)
      BY <1>1, <2>1, <2>3, <2>4, <3>2, ArgumentAsIntended
    <3>5. contract'[x].mode = c.mode /\ contract'[x].state = "Resolved"
      BY <2>1, <3>2, <3>3
    <3>6. QED
      BY <3>2, <3>3, <3>4, <3>5
  <2>5. ASSUME NEW w \in Wagers, carried'[w].action = "resolve"
        PROVE  IsFinal(w)' /\ contract'[w].winner = Intended(carried'[w], contract'[w].mode)
    <3>1. carried = [v \in Wagers |-> carried[v]]
      BY DEF IInv, ServiceInv
    <3>2. CASE w = x
      <4>1. carried'[w] = c.decision
        BY <2>1, <2>2, <3>1, <3>2
      <4>2. /\ contract'[w].state = "Resolved"
            /\ contract'[w].winner = Intended(carried'[w], contract'[w].mode)
        BY <2>4, <2>5, <3>2, <4>1
      <4>3. QED
        BY <4>2 DEF IsFinal
    <3>3. CASE w # x
      <4>1. carried'[w] = carried[w]
        BY <2>1, <2>2, <3>1, <3>3
      <4>2. QED
        BY <1>3, <2>5, <4>1
    <3>4. QED
      BY <3>2, <3>3
  <2>6. QED
    BY <2>5 DEF CarriedInv
<1>6. carried' = carried \/ \E t \in Threads : RunNext(t) /\ Lands(run[t][1])
  BY ThreadsOfSetting
     DEF Next, vars, serviceVars, SweepStep, ServiceStep, StartSweep, SweepNext, SweepLost,
         SweepDryRun, EditDecisions, RunOnce, RunNext, RunLost
<1>7. QED
  BY <1>4, <1>5, <1>6

-------------------------------------------------------------------------------
(* The index caught up *)

\* The three rules that are written outside the contract, on a fresh row.
LEMMA FreshRowAgrees ==
    ASSUME WagersInv, NEW w \in Wagers, Deployed(w), Fresh(w)
    PROVE  /\ ExpireCandidate(row[w], now) <=> ExpireAccepted(w)
           /\ Actionable(row[w], now) <=> ResolverAccepted(w)
           /\ row[w].state = "OPEN" =>
                (CanExpireRow(row[w], now) <=> ExpireCandidate(row[w], now))
<1> DEFINE r == row[w]
           c == contract[w]
<1>1. ContractSound(c, now) /\ c # NoWager /\ now \in Nat
  BY NotOpen DEF WagersInv, WagersTyped, Deployed
<1>2. /\ c.state \in {"Open", "Resolved", "Retracted"}
      /\ c.closeTime \in Nat /\ c.window \in Nat /\ c.windowClosed \in BOOLEAN
      /\ c.closedAt # NoTime => c.closedAt \in 1..now
      /\ c.windowClosed => c.closedAt # NoTime \/ (c.closeTime # 0 /\ now >= c.closeTime)
  BY <1>1 DEF ContractSound
<1>3. r = RowOf(c)
  BY DEF Fresh
<1>4. /\ r.betting_close_time = c.closeTime /\ r.resolution_window = c.window
      /\ r.betting_closed_by_authority = (c.closedAt # NoTime)
      /\ r.betting_closed_at = c.closedAt /\ r.resolution_window_closed = c.windowClosed
      /\ r.resolver = c.resolver
  BY <1>3 DEF RowOf
<1>5. r.state = "OPEN" <=> c.state = "Open"
  BY <1>2, <1>3 DEF RowOf, RowState
<1> DEFINE closed == c.closedAt # NoTime \/ (c.closeTime # 0 /\ now >= c.closeTime)
           anchor == IF c.closedAt # NoTime THEN c.closedAt ELSE c.closeTime
           over == c.windowClosed \/ (c.window # 0 /\ now > anchor + c.window)
<1>6. Clock(w)!BettingClosed <=> closed
  BY ClockBettingClosed
<1>7. closed => /\ Clock(w)!ResolutionWindowOver <=> over
                /\ Clock(w)!ResolutionWindowOpen <=> ~over
  BY <1>6, ClockWindow
<1>8. ExpireAccepted(w) <=> c.state = "Open" /\ closed /\ over
  BY <1>6, <1>7 DEF ExpireAccepted
<1>9. ResolverAccepted(w) <=> c.state = "Open" /\ c.resolver = "ours" /\ closed /\ ~over
  BY <1>6, <1>7 DEF ResolverAccepted
<1> HIDE DEF r, c
<1>10. ExpireCandidate(r, now) <=> r.state = "OPEN" /\ closed /\ over
  <2>1. CASE c.closedAt # NoTime
    BY <1>1, <1>2, <1>4, <2>1 DEF ExpireCandidate
  <2>2. CASE c.closedAt = NoTime
    BY <1>1, <1>2, <1>4, <2>2 DEF ExpireCandidate
  <2>3. QED
    BY <2>1, <2>2
<1>11. Actionable(r, now) <=> r.state = "OPEN" /\ c.resolver = "ours" /\ closed /\ ~over
  <2>1. BettingIsClosed(r, now) <=> closed
    <3>1. r.betting_closed_by_authority <=> c.closedAt # NoTime
      BY <1>4, Zenon
    <3>2. r.betting_close_time > 0 <=> c.closeTime # 0
      BY <1>2, <1>4
    <3>3. QED
      BY <1>1, <1>2, <1>4, <3>1, <3>2 DEF BettingIsClosed
  <2>2. closed => (ResolutionWindowIsOver(r, now) <=> over)
    <3>1. CASE c.closedAt # NoTime
      BY <1>1, <1>2, <1>4, <3>1 DEF ResolutionWindowIsOver
    <3>2. CASE c.closedAt = NoTime
      BY <1>1, <1>2, <1>4, <3>2 DEF ResolutionWindowIsOver
    <3>3. QED
      BY <3>1, <3>2
  <2>3. QED
    BY <1>4, <2>1, <2>2 DEF Actionable
<1>12. r.state = "OPEN" => (CanExpireRow(r, now) <=> ExpireCandidate(r, now))
  <2>1. CASE c.closedAt # NoTime
    BY <1>1, <1>2, <1>4, <2>1 DEF CanExpireRow, ExpireCandidate
  <2>2. CASE c.closedAt = NoTime
    BY <1>1, <1>2, <1>4, <2>2 DEF CanExpireRow, ExpireCandidate
  <2>3. QED
    BY <2>1, <2>2
<1>13. QED
  BY <1>5, <1>8, <1>9, <1>10, <1>11, <1>12 DEF r

-------------------------------------------------------------------------------
(* The theorems *)

LEMMA InitInv == ASSUME Init PROVE IInv /\ CarriedInv
<1>1. /\ setting \in Settings /\ now = 1 /\ contract = [w \in Wagers |-> NoWager]
      /\ row = [w \in Wagers |-> NoRow] /\ sweep = <<>>
      /\ run = [t \in Threads |-> <<>>]
      /\ decisions = [w \in Wagers |-> NoDecision] /\ carried = [w \in Wagers |-> NoDecision]
  BY DEF Init, WagersInit
<1>2. WagersInv
  BY <1>1 DEF WagersInv, WagersTyped, ContractSound, RowSound
<1>3. SweepInv
  BY <1>1 DEF SweepInv
<1>4. ServiceInv
  BY <1>1 DEF ServiceInv
<1>5. CarriedInv
  BY <1>1 DEF CarriedInv, NoDecision
<1>6. QED
  BY <1>2, <1>3, <1>4, <1>5 DEF IInv

\* The index's rows, however stale, and both keepers' lists agree with the contracts.
THEOREM KeepersInductiveInvariant == Spec => []IInv
<1>1. Init => IInv
  BY InitInv
<1>2. IInv /\ [Next]_vars => IInv'
  BY KeepersMove, SweepInvStep, ServiceInvStep DEF IInv
<1>3. QED
  BY <1>1, <1>2, PTL DEF Spec

\* A candidate of the sweeper is expirable or final on chain, however old its row.
THEOREM KeepersCandidatesSound == Spec => []CandidatesSound
<1>1. IInv => CandidatesSound
  BY CandidateIsRight DEF IInv, CandidatesSound
<1>2. QED
  BY <1>1, KeepersInductiveInvariant, PTL

\* The rules of the sweeper, of the resolution service and of the explorer give the
\* contract's answer on a fresh row.
THEOREM KeepersRulesAgree == Spec => []RulesAgree
<1>1. IInv => RulesAgree
  BY FreshRowAgrees DEF IInv, RulesAgree
<1>2. QED
  BY <1>1, KeepersInductiveInvariant, PTL

\* With the chain's own clock, the sweeper's transactions revert on final wagers only.
THEOREM KeepersRevertMeansFinal == Spec => RevertMeansFinal
<1>1. ASSUME IInv, SweepNext, UNCHANGED contract, setting.skews = {0}
      PROVE  IsFinal(Head(sweep))
  <2>1. 1 \in DOMAIN sweep /\ Head(sweep) = sweep[1] /\ sweep[1] \in Wagers
    BY <1>1 DEF SweepNext, IInv, SweepInv
  <2>2. ExpireAccepted(sweep[1]) \/ IsFinal(sweep[1])
    BY <1>1, <2>1 DEF IInv, SweepInv
  <2>3. ~ExpireAccepted(sweep[1])
    <3>1. SUFFICES ASSUME ExpireAccepted(sweep[1])
                   PROVE  FALSE
      OBVIOUS
    <3>2. contract[sweep[1]].state = "Open" /\ Clock(sweep[1])!BettingClosed
      BY <3>1 DEF ExpireAccepted
    <3>3. /\ Finalised(sweep[1], "Retracted", NoWinner) /\ UNCHANGED <<setting, now, row>>
          /\ contract' = contract
      BY <1>1, <3>1 DEF SweepNext
    <3>4. \E d : WagerChanges(sweep[1], d) /\ d.state = "Retracted"
      BY <1>1, <2>1, <3>2, <3>3, FinalisedChanges DEF IInv
    <3>5. contract'[sweep[1]].state = "Retracted"
      BY <1>1, <2>1, <3>4 DEF WagerChanges, IInv, WagersInv, WagersTyped
    <3>6. QED
      BY <3>2, <3>3, <3>5
  <2>4. QED
    BY <2>1, <2>2, <2>3
<1>2. IInv /\ [Next]_vars =>
        [(SweepNext /\ UNCHANGED contract /\ setting.skews = {0}) => IsFinal(Head(sweep))]_vars
  BY <1>1
<1>3. QED
  BY <1>2, KeepersInductiveInvariant, PTL DEF Spec, RevertMeansFinal

\* Where every decision can be understood in one way only, a wager that the service
\* resolved has the winner its decision meant: the outcome index alone is what breaks it.
THEOREM KeepersDecisionCarriedOut ==
    ASSUME \A s \in Settings : \A d \in s.decisions : Unambiguous(d)
    PROVE  Spec => []DecisionCarriedOut
<1>1. Init => IInv /\ CarriedInv
  BY InitInv
<1>2. IInv /\ CarriedInv /\ [Next]_vars => CarriedInv'
  BY CarriedInvStep
<1>3. CarriedInv => DecisionCarriedOut
  BY DEF CarriedInv, DecisionCarriedOut
<1>4. QED
  BY <1>1, <1>2, <1>3, KeepersInductiveInvariant, PTL DEF Spec
===============================================================================
