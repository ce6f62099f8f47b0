--------------------------- MODULE LifetimeProofs ---------------------------
(***************************************************************************)
(* The timer of the main loop and the removal of dead accounts, for any    *)
(* number of accounts and any lifetimes.                                   *)
(***************************************************************************)
EXTENDS Lifetime, WellFoundedInduction, TLAPS

\* Only a handler adds an account, and only one that is not loaded.
AddsAbsent == adding # NoOne => at = "handle" /\ adding.acc \in Accounts \ Loaded

LifeInv == TypeOK /\ AddsAbsent /\ TimerCovers
-----------------------------------------------------------------------------
\* A set of natural numbers has a least element, and Min is that element.
LEMMA MinLeast ==
    ASSUME NEW S \in SUBSET Nat, S # {}
    PROVE  Min(S) \in S /\ \A y \in S : Min(S) <= y
  <1>1. PICK x \in S : \A y \in S : ~(<<y, x>> \in OpToRel(<, Nat))
    BY WFMin, NatLessThanWellFounded
  <1>2. \A y \in S : ~(y < x)
    BY <1>1 DEF OpToRel
  <1>3. \E z \in S : \A y \in S : z <= y
    BY <1>2
  <1> QED BY <1>3 DEF Min

\* The death a request gives an account.
LEMMA DeathType == TypeOK => \A l \in Lifetimes : Death(l) \in Nat
  BY LifetimeAssumption DEF TypeOK, Death

\* A time to die is a number, and NULL is none.
LEMMA LoadedDeath == TypeOK => \A a \in Loaded : death[a] \in Nat
  BY DEF TypeOK, Loaded
-----------------------------------------------------------------------------
(* The steps                                                               *)

\* Looking for the next death covers every account that is not dead yet.
LEMMA ScanStep ==
    ASSUME LifeInv, getMinDeathFrom
    PROVE  LifeInv'
  <1>1. Upcoming \in SUBSET Nat /\ \A d \in Upcoming : d > now
    BY LoadedDeath DEF LifeInv, Upcoming
  <1>2. now \in Nat /\ now <= MaxTime /\ now > 0
    BY LifetimeAssumption DEF LifeInv, TypeOK
  <1>3. timer' \in Nat /\ (Upcoming # {} => timer' \in Upcoming /\ \A d \in Upcoming : timer' <= d)
    BY <1>1, MinLeast DEF getMinDeathFrom
  <1>4. TypeOK'
    BY <1>2, <1>3, LifetimeAssumption DEF LifeInv, TypeOK, getMinDeathFrom
  <1>5. AddsAbsent'
    BY DEF LifeInv, AddsAbsent, getMinDeathFrom
  <1>6. TimerCovers'
    <2> SUFFICES ASSUME NEW a \in Loaded', death'[a] > scanned'
                 PROVE  timer' # 0 /\ timer' <= death'[a]
      BY DEF TimerCovers
    <2>1. a \in Loaded /\ death'[a] = death[a] /\ death[a] > now
      BY DEF getMinDeathFrom, Loaded
    <2>2. death[a] \in Upcoming
      BY <2>1 DEF Upcoming
    <2>3. timer' \in Upcoming /\ timer' <= death[a]
      BY <1>3, <2>2
    <2>4. timer' \in Nat /\ timer' > now
      BY <1>1, <2>3
    <2>5. timer' # 0
      BY <1>2, <2>4
    <2> QED BY <2>1, <2>3, <2>5
  <1> QED BY <1>4, <1>5, <1>6 DEF LifeInv

\* The clock ticks, whatever the main loop is doing.
LEMMA TickStep ==
    ASSUME LifeInv, Tick
    PROVE  LifeInv'
  <1>1. TypeOK'
    BY LifetimeAssumption DEF LifeInv, TypeOK, Tick
  <1>2. AddsAbsent' /\ TimerCovers'
    BY DEF LifeInv, AddsAbsent, TimerCovers, Loaded, Tick
  <1> QED BY <1>1, <1>2 DEF LifeInv

\* The dead are removed.
LEMMA RemoveStep ==
    ASSUME LifeInv, removeDeathAccounts
    PROVE  LifeInv'
  <1>1. TypeOK'
    BY DEF LifeInv, TypeOK, removeDeathAccounts
  <1>2. adding = NoOne /\ adding' = adding
    BY DEF LifeInv, AddsAbsent, removeDeathAccounts
  <1>3. AddsAbsent' /\ TimerCovers'
    BY <1>2 DEF AddsAbsent, NoOne, TimerCovers, removeDeathAccounts
  <1> QED BY <1>1, <1>3 DEF LifeInv

\* The handlers that begin.
LEMMA BeginStep ==
    ASSUME LifeInv, \/ handleRequest
                    \/ \E a \in Accounts : oidcd_handleRm(a)
                    \/ \E a \in Accounts, l \in Lifetimes :
                          oidcd_handleAdd(a, l) \/ oidcd_handleReauthenticate(a, l)
    PROVE  LifeInv'
  <1>1. at = "wait" /\ at' = "handle" /\ UNCHANGED <<now, timer, scanned>>
    BY DEF handleRequest, oidcd_handleRm, oidcd_handleAdd, oidcd_handleReauthenticate
  <1>2. adding = NoOne
    BY <1>1 DEF LifeInv, AddsAbsent
  <1>3. TimerCovers'
    BY <1>1 DEF TimerCovers
  <1>4. CASE UNCHANGED adding
    <2>1. \/ death' = death
          \/ \E a \in Accounts : death' = [death EXCEPT ![a] = NULL]
          \/ \E a \in Accounts, d \in Nat : death' = [death EXCEPT ![a] = d]
      BY DeathType DEF LifeInv, handleRequest, oidcd_handleRm, oidcd_handleAdd,
                       oidcd_handleReauthenticate
    <2>2. death' \in [Accounts -> Nat \cup {NULL}]
      BY <2>1 DEF LifeInv, TypeOK
    <2>3. TypeOK'
      BY <1>1, <1>4, <2>2 DEF LifeInv, TypeOK
    <2>4. AddsAbsent'
      BY <1>2, <1>4 DEF AddsAbsent, NoOne
    <2> QED BY <1>3, <2>3, <2>4 DEF LifeInv
  <1>5. CASE ~UNCHANGED adding
    <2>1. PICK a \in Accounts \ Loaded, l \in Lifetimes :
              adding' = [acc |-> a, death |-> Death(l)] /\ death' = death
      BY <1>5 DEF handleRequest, oidcd_handleRm, oidcd_handleAdd, oidcd_handleReauthenticate
    <2>2. TypeOK'
      BY <1>1, <2>1, DeathType DEF LifeInv, TypeOK
    <2>3. AddsAbsent'
      BY <1>1, <2>1 DEF AddsAbsent, Loaded
    <2> QED BY <1>3, <2>2, <2>3 DEF LifeInv
  <1> QED BY <1>4, <1>5

\* The handlers that end.
LEMMA EndStep ==
    ASSUME LifeInv, addAccount \/ endRequest
    PROVE  LifeInv'
  <1>1. at' = "scan" /\ adding' = NoOne /\ UNCHANGED <<now, timer, scanned>>
    BY DEF addAccount, endRequest
  <1>2. NoOne \in [acc : Accounts \cup {NULL}, death : Nat]
    BY DEF NoOne
  <1>3. death' \in [Accounts -> Nat \cup {NULL}]
    <2>1. CASE endRequest
      BY <2>1 DEF LifeInv, TypeOK, endRequest
    <2>2. CASE addAccount
      <3>1. adding.death \in Nat /\ now + ShortLife \in Nat
        BY LifetimeAssumption DEF LifeInv, TypeOK
      <3> QED BY <2>2, <3>1 DEF LifeInv, TypeOK, addAccount
    <2> QED BY <2>1, <2>2
  <1>4. TypeOK'
    BY <1>1, <1>2, <1>3 DEF LifeInv, TypeOK
  <1>5. AddsAbsent' /\ TimerCovers'
    BY <1>1 DEF AddsAbsent, NoOne, TimerCovers
  <1> QED BY <1>4, <1>5 DEF LifeInv

\* All of them together.
LEMMA LifeNext == LifeInv /\ [Next]_vars => LifeInv'
  <1>1. LifeInv /\ UNCHANGED vars => LifeInv'
    BY DEF vars, LifeInv, TypeOK, AddsAbsent, TimerCovers, Loaded
  <1> QED BY <1>1, ScanStep, TickStep, RemoveStep, BeginStep, EndStep DEF Next, Step

\* The agent starts without accounts.
LEMMA LifeInit == Init => LifeInv
  <1> SUFFICES ASSUME Init PROVE LifeInv
    OBVIOUS
  <1>1. TypeOK
    BY LifetimeAssumption DEF Init, TypeOK, NoOne
  <1> QED BY <1>1 DEF Init, LifeInv, AddsAbsent, TimerCovers
-----------------------------------------------------------------------------
(* The theorems                                                            *)

\* While oidcd waits for a request its timer goes off no later than the next
\* account dies, however long handlers took and however accounts were added,
\* re-authenticated and removed meanwhile (getMinAccountDeath, oidcd_main).
THEOREM Covered == Spec => []TimerCovers
  BY LifeInit, LifeNext, PTL DEF Spec, LifeInv

\* The main loop unloads no account before its time, and a load that fails
\* halfway takes no account away: only a request to unload it does.
THEOREM NotEarly == Spec => NeverUnloadedEarly
  <1>1. LifeInv /\ [Next]_vars =>
          [\A a \in Loaded : death'[a] = NULL /\ (death[a] = 0 \/ death[a] > now)
                                => oidcd_handleRm(a)]_vars
    <2> SUFFICES ASSUME LifeInv, Next, NEW a \in Loaded, death'[a] = NULL,
                        death[a] = 0 \/ death[a] > now
                 PROVE  oidcd_handleRm(a)
      OBVIOUS
    <2>1. death[a] \in Nat /\ death[a] # NULL /\ a \in Accounts /\ now \in Nat
      BY LoadedDeath, LifetimeAssumption DEF LifeInv, TypeOK, Loaded
    <2>2. ~isDead(a)
      BY <2>1 DEF isDead
    <2>3. ASSUME NEW b \in Accounts, NEW d, d # NULL, death' = [death EXCEPT ![b] = d]
          PROVE  FALSE
      BY <2>1, <2>3 DEF LifeInv, TypeOK
    <2>4. \A l \in Lifetimes : Death(l) # NULL
      BY DeathType, LifetimeAssumption DEF LifeInv
    <2>5. ASSUME addAccount PROVE FALSE
      BY <2>1, <2>5 DEF LifeInv, TypeOK, AddsAbsent, addAccount
    <2>6. ASSUME removeDeathAccounts PROVE FALSE
      BY <2>1, <2>2, <2>6 DEF removeDeathAccounts
    <2>7. ASSUME NEW b \in Accounts, oidcd_handleRm(b) PROVE oidcd_handleRm(a)
      <3>1. b = a
        BY <2>1, <2>7 DEF LifeInv, TypeOK, oidcd_handleRm
      <3> QED BY <2>7, <3>1
    <2>8. ASSUME death' = death PROVE FALSE
      BY <2>1, <2>8
    <2> QED BY <2>3, <2>4, <2>5, <2>6, <2>7, <2>8
            DEF Next, Step, Tick, getMinDeathFrom, endRequest, handleRequest,
                oidcd_handleAdd, oidcd_handleReauthenticate
  <1> QED BY <1>1, LifeInit, LifeNext, PTL DEF Spec, NeverUnloadedEarly
=============================================================================
