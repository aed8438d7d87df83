--------------------------- MODULE RelayLockProofs ---------------------------
(***************************************************************************)
(* What RelayLock promises, for any number of deployers and collectors and *)
(* any number of starts and faults.                                        *)
(*                                                                         *)
(* The invariant says what a client at a place may rely on: a lock or a    *)
(* claim that is its own and not stale, a directory that is installed, and *)
(* for a collector that nobody it could disturb is past the second look at *)
(* the claim.  A command changes the host in one of a few ways; a lemma    *)
(* for each shows that the invariant survives it.                          *)
(***************************************************************************)
EXTENDS RelayLock, TLAPS

-----------------------------------------------------------------------------
(* The invariant *)

(* Places where the token of the claim is written. *)
TokenPlaces == ClaimPlaces \ {"recoverOwner", "fenceOwner", "gcOwner"}

(* Places of a lock's holder that has not looked at the claim yet or backs off. *)
EarlyPlaces == {"recheck", "backOff", "repairRecheck", "repairYield", "repairUnsure"}

(* Places where a deployer relies on an installed directory. *)
InstalledPlaces == {"repairing", "launch", "launchUnowned", "launchFenced"}

(* Places where a collector has seen, under its claim, that the lock is open. *)
OpenPlaces == {"gcCompleteAgain", "gcSocketAgain", "gcOwned", "gcMove"}

(* Places where it has also seen that no daemon is alive. *)
DeadPlaces == {"gcOwned", "gcMove"}

HeldLock == \A c \in Deployers : pc[c] \in LockPlaces => lock = [owner |-> c, stale |-> FALSE]

HeldClaim ==
    \A c \in Clients :
        /\ pc[c] \in ClaimPlaces => claim.owner = c /\ ~claim.stale
        /\ pc[c] \in TokenPlaces => claim.token = c

ReliesOnInstall == \A c \in Deployers : pc[c] \in InstalledPlaces => Installed

CollectsIdle ==
    \A g \in Collectors :
        /\ pc[g] \in OpenPlaces => \A c \in Deployers : pc[c] \in LockPlaces => pc[c] \in EarlyPlaces
        /\ pc[g] \in DeadPlaces => ~tree.alive

IInv ==
    /\ TypeOK
    /\ HeldClaim
    /\ carried \/ (HeldLock /\ ReliesOnInstall /\ CollectsIdle)

-----------------------------------------------------------------------------
(* Steps of one client *)

Fits(c, p) ==
    \/ p = "off"
    \/ c \in Deployers /\ p \in DeployerPlaces
    \/ c \in Collectors /\ p \in CollectorPlaces

(* Places where nothing is relied on. *)
Idle(p) == p \notin LockPlaces \cup ClaimPlaces

(* c is at p now, and the others are where they were. *)
Moved(c, p) ==
    /\ ClientsOK'
    /\ pc'[c] = p
    /\ \A d \in Clients : d # c => pc'[d] = pc[d]

LEMMA GotoMoves ==
    ASSUME ClientsOK, NEW c \in Clients, NEW p, Fits(c, p), Goto(c, p), NoFault \/ Fault,
           goal' \in [Clients -> {"install", "restart"}], starts' \in [Clients -> Nat],
           carried' \in BOOLEAN
    PROVE  Moved(c, p)
<1>1. /\ pc'[c] = p
      /\ \A d \in Clients : d # c => pc'[d] = pc[d]
  BY DEF ClientsOK, Goto
<1>2. pc' \in [Clients -> DeployerPlaces \cup CollectorPlaces \cup {"off"}]
  BY DEF ClientsOK, Goto, Fits
<1>3. faults' \in Nat
  BY DEF ClientsOK, NoFault, Fault
<1>4. "off" \notin DeployerPlaces \cup CollectorPlaces /\ DeployerPlaces \cap CollectorPlaces = {}
  BY DEF DeployerPlaces, CollectorPlaces
<1>5. \A d \in Deployers : pc'[d] \notin CollectorPlaces
  BY <1>1, <1>4, ClientsAssumption DEF ClientsOK, Fits, Clients
<1>6. \A g \in Collectors : pc'[g] \notin DeployerPlaces
  BY <1>1, <1>4, ClientsAssumption DEF ClientsOK, Fits, Clients
<1> QED
  BY <1>1, <1>2, <1>3, <1>5, <1>6 DEF Moved, ClientsOK
LEMMA MovedFacts ==
    ASSUME NEW c \in Clients, NEW p, Moved(c, p)
    PROVE  /\ ClientsOK'
           /\ pc'[c] = p
           /\ \A d \in Clients : d # c => pc'[d] = pc[d]
           /\ \A d \in Clients : pc'[d] = p \/ pc'[d] = pc[d]
  BY DEF Moved

-----------------------------------------------------------------------------
(* What a command does to the host, and where its client may go then *)

(* A client may go to p if it has what it relies on there. *)
Entitled(c, p) ==
    /\ p \in LockPlaces => pc[c] \in LockPlaces
    /\ p \in ClaimPlaces => pc[c] \in ClaimPlaces
    /\ p \in TokenPlaces => pc[c] \in TokenPlaces
    /\ p \in InstalledPlaces => pc[c] \in InstalledPlaces \/ Installed'
    /\ p \in LockPlaces \ EarlyPlaces => pc[c] \in LockPlaces \ EarlyPlaces \/ claim = NoClaim
    /\ p \in OpenPlaces => pc[c] \in OpenPlaces \/ LockIsOpen
    /\ p \in DeadPlaces => pc[c] \in DeadPlaces \/ ~tree.alive

LEMMA IdleEntitled ==
    ASSUME NEW c, NEW p, Idle(p)
    PROVE  Entitled(c, p)
  BY DEF Idle, Entitled, TokenPlaces, InstalledPlaces, OpenPlaces, DeadPlaces, LockPlaces, ClaimPlaces

(* A place of a lock or claim is one of a client that is not "off". *)
LEMMA PlacesApart ==
    /\ TokenPlaces \subseteq ClaimPlaces /\ EarlyPlaces \subseteq LockPlaces
    /\ DeadPlaces \subseteq OpenPlaces /\ OpenPlaces \subseteq TokenPlaces
    /\ InstalledPlaces \subseteq (LockPlaces \ EarlyPlaces) \cup TokenPlaces
    /\ InstalledPlaces \cap TokenPlaces = {"launchFenced"}
    /\ LockPlaces \cap ClaimPlaces = {}
    /\ LockPlaces \subseteq DeployerPlaces /\ OpenPlaces \subseteq CollectorPlaces
    /\ LockPlaces \cap CollectorPlaces = {} /\ OpenPlaces \cap DeployerPlaces = {}
  BY DEF TokenPlaces, EarlyPlaces, DeadPlaces, OpenPlaces, InstalledPlaces, LockPlaces, ClaimPlaces,
         DeployerPlaces, CollectorPlaces

(* Whoever holds the claim, nobody else does. *)
LEMMA OneClaimant ==
    ASSUME HeldClaim, NEW c \in Clients, NEW d \in Clients, pc[c] \in ClaimPlaces, pc[d] \in ClaimPlaces
    PROVE  c = d
  BY DEF HeldClaim

LEMMA OneHolder ==
    ASSUME HeldLock, NEW c \in Deployers, NEW d \in Deployers, pc[c] \in LockPlaces, pc[d] \in LockPlaces
    PROVE  c = d
<1>1. lock = [owner |-> c, stale |-> FALSE] /\ lock = [owner |-> d, stale |-> FALSE]
  BY DEF HeldLock
<1>2. lock.owner = c /\ lock.owner = d
  BY <1>1
<1> QED
  BY <1>2

(* An open lock is held by nobody. *)
LEMMA OpenIsFree ==
    ASSUME HeldLock, LockIsOpen, NEW c \in Deployers
    PROVE  pc[c] \notin LockPlaces
<1> SUFFICES ASSUME pc[c] \in LockPlaces PROVE FALSE
  OBVIOUS
<1>1. lock = [owner |-> c, stale |-> FALSE]
  BY DEF HeldLock
<1>2. lock.owner = c /\ lock.stale = FALSE
  BY <1>1
<1>3. c # None
  BY ClientsAssumption DEF Clients
<1> QED
  BY <1>2, <1>3 DEF LockIsOpen, NoLock

(* A command that looks, or makes more of the directory. *)
LEMMA LooksKeep ==
    ASSUME IInv, NEW c \in Clients, NEW p, Moved(c, p), Entitled(c, p),
           UNCHANGED <<lock, claim, carried>>, TreeOK',
           tree.there => tree'.there, Installed => Installed',
           \/ tree'.alive => tree.alive
           \/ c \in Deployers /\ (carried \/ \A g \in Collectors : pc[g] \notin DeadPlaces)
    PROVE  IInv'
<1> USE MovedFacts
<1>1. TypeOK'
  BY DEF IInv, TypeOK, LockOK, ClaimOK
<1>2. HeldClaim'
  BY DEF IInv, HeldClaim, Entitled
<1>3. ASSUME ~carried PROVE HeldLock'
  <2>1. HeldLock
    BY <1>3 DEF IInv
  <2>2. SUFFICES ASSUME NEW d \in Deployers, pc'[d] \in LockPlaces
                 PROVE  pc[d] \in LockPlaces
    BY <2>1 DEF HeldLock
  <2> QED
    BY <2>2 DEF Entitled, Clients
<1>4. ASSUME ~carried PROVE ReliesOnInstall'
  BY <1>4 DEF IInv, ReliesOnInstall, Entitled, Clients
<1>5. ASSUME ~carried PROVE CollectsIdle'
  <2>1. HeldLock /\ CollectsIdle /\ HeldClaim
    BY <1>5 DEF IInv
  <2>2. ASSUME NEW g \in Collectors, pc'[g] \in OpenPlaces, NEW d \in Deployers, pc'[d] \in LockPlaces,
               pc'[d] \notin EarlyPlaces
        PROVE  FALSE
    <3>1. d # g /\ d \in Clients /\ g \in Clients
      BY ClientsAssumption DEF Clients
    <3>2. CASE c = g
      <4>1. pc[d] \in LockPlaces \ EarlyPlaces
        BY <2>2, <3>1, <3>2
      <4>2. pc[g] \in OpenPlaces \/ LockIsOpen
        BY <2>2, <3>2 DEF Entitled
      <4> QED
        BY <2>1, <4>1, <4>2, OpenIsFree DEF CollectsIdle
    <3>3. CASE c # g
      <4>1. pc[g] \in OpenPlaces
        BY <2>2, <3>1, <3>3
      <4>2. claim.owner = g
        BY <2>1, <3>1, <4>1, PlacesApart DEF HeldClaim
      <4>3. claim # NoClaim
        BY <4>2, <3>1, ClientsAssumption DEF NoClaim
      <4>4. pc[d] \in LockPlaces \ EarlyPlaces
        BY <2>2, <3>1, <4>3 DEF Entitled
      <4> QED
        BY <2>1, <4>1, <4>4 DEF CollectsIdle
    <3> QED
      BY <3>2, <3>3
  <2>3. ASSUME NEW g \in Collectors, pc'[g] \in DeadPlaces
        PROVE  ~tree'.alive
    <3>1. CASE tree'.alive => tree.alive
      BY <2>1, <2>3, <3>1 DEF CollectsIdle, Entitled, Clients
    <3>2. CASE c \in Deployers /\ \A h \in Collectors : pc[h] \notin DeadPlaces
      BY <2>3, <3>2, ClientsAssumption DEF Clients
    <3> QED
      BY <1>5, <3>1, <3>2
  <2> QED
    BY <2>2, <2>3 DEF CollectsIdle
<1> QED
  BY <1>1, <1>2, <1>3, <1>4, <1>5 DEF IInv

(* A lock is put where it is open. *)
LEMMA LockTaken ==
    ASSUME IInv, NEW c \in Deployers, NEW p, Moved(c, p), p \in EarlyPlaces \/ Idle(p),
           LockIsOpen, tree.there, PutLock(c), UNCHANGED <<tree, claim, carried>>
    PROVE  IInv'
<1> USE MovedFacts DEF Clients
<1>1. lock' = [owner |-> c, stale |-> FALSE]
  BY DEF PutLock
<1>2. TypeOK'
  BY <1>1 DEF IInv, TypeOK, LockOK, ClaimOK, TreeOK
<1>3. p \notin ClaimPlaces /\ p \notin TokenPlaces /\ p \notin InstalledPlaces
  BY PlacesApart DEF Idle
<1>4. HeldClaim'
  BY <1>3 DEF IInv, HeldClaim
<1>5. ASSUME ~carried PROVE HeldLock' /\ ReliesOnInstall' /\ CollectsIdle'
  <2>1. HeldLock /\ ReliesOnInstall /\ CollectsIdle
    BY <1>5 DEF IInv
  <2>2. \A d \in Deployers : pc[d] \notin LockPlaces
    BY <2>1, OpenIsFree
  <2>3. HeldLock'
    BY <1>1, <2>2 DEF HeldLock
  <2>4. ReliesOnInstall'
    BY <1>3, <2>1 DEF ReliesOnInstall, Installed
  <2>5. \A d \in Deployers : pc'[d] \in LockPlaces => pc'[d] \in EarlyPlaces
    BY <2>2 DEF Idle
  <2>6. p \notin OpenPlaces
    BY PlacesApart DEF Idle
  <2>7. \A g \in Collectors : pc'[g] = pc[g]
    BY ClientsAssumption
  <2>8. CollectsIdle'
    BY <2>1, <2>5, <2>7 DEF CollectsIdle
  <2> QED
    BY <2>3, <2>4, <2>8
<1> QED
  BY <1>2, <1>4, <1>5 DEF IInv

(* A lock is removed by the one who holds it, or believes so. *)
LEMMA LockDropped ==
    ASSUME IInv, NEW c \in Deployers, NEW p, Moved(c, p), Idle(p), pc[c] \in LockPlaces,
           RemoveLock, UNCHANGED <<tree, claim, carried>>
    PROVE  IInv'
<1> USE MovedFacts DEF Clients
<1>1. TypeOK'
  BY DEF IInv, TypeOK, LockOK, ClaimOK, TreeOK, RemoveLock
<1>2. p \notin ClaimPlaces /\ p \notin TokenPlaces /\ p \notin InstalledPlaces /\ p \notin LockPlaces
  BY PlacesApart DEF Idle
<1>3. HeldClaim'
  BY <1>2 DEF IInv, HeldClaim
<1>4. ASSUME ~carried PROVE HeldLock' /\ ReliesOnInstall' /\ CollectsIdle'
  <2>1. HeldLock /\ ReliesOnInstall /\ CollectsIdle
    BY <1>4 DEF IInv
  <2>2. \A d \in Deployers : d # c => pc[d] \notin LockPlaces
    BY <2>1, OneHolder
  <2>3. HeldLock'
    BY <1>2, <2>2 DEF HeldLock
  <2>4. ReliesOnInstall'
    BY <1>2, <2>1 DEF ReliesOnInstall, Installed
  <2>5. \A g \in Collectors : pc'[g] = pc[g]
    BY ClientsAssumption
  <2>6. CollectsIdle'
    BY <1>2, <2>1, <2>5 DEF CollectsIdle
  <2> QED
    BY <2>3, <2>4, <2>6
<1> QED
  BY <1>1, <1>3, <1>4 DEF IInv

(* A claim that is not in use changes hands, or one's own claim changes. *)
LEMMA ClaimChanged ==
    ASSUME IInv, NEW c \in Clients, NEW p, Moved(c, p), UNCHANGED <<tree, lock, carried>>, ClaimOK',
           p \notin LockPlaces \cup InstalledPlaces \cup OpenPlaces,
           \A d \in Clients : d # c => pc[d] \notin ClaimPlaces,
           p \in ClaimPlaces => claim'.owner = c /\ ~claim'.stale,
           p \in TokenPlaces => claim'.token = c
    PROVE  IInv'
<1> USE MovedFacts
<1>1. TypeOK'
  BY DEF IInv, TypeOK, LockOK, TreeOK
<1>2. HeldClaim'
  BY PlacesApart DEF HeldClaim
<1>3. ASSUME ~carried PROVE HeldLock' /\ ReliesOnInstall' /\ CollectsIdle'
  <2>1. HeldLock /\ ReliesOnInstall /\ CollectsIdle
    BY <1>3 DEF IInv
  <2>2. HeldLock'
    BY <2>1 DEF HeldLock, Clients
  <2>3. ReliesOnInstall'
    BY <2>1 DEF ReliesOnInstall, Installed, Clients
  <2>4. \A g \in Clients : pc'[g] \notin OpenPlaces
    BY PlacesApart
  <2>5. CollectsIdle'
    BY <2>4, PlacesApart DEF CollectsIdle, Clients
  <2> QED
    BY <2>2, <2>3, <2>5
<1> QED
  BY <1>1, <1>2, <1>3 DEF IInv

(* A claim that is free or stale is in nobody's use. *)
LEMMA StaleIsFree ==
    ASSUME HeldClaim, claim = NoClaim \/ claim.stale, NEW d \in Clients
    PROVE  pc[d] \notin ClaimPlaces
  BY ClientsAssumption DEF HeldClaim, NoClaim

-----------------------------------------------------------------------------
(* The commands *)

LEMMA OtherTyped ==
    ASSUME IInv, UNCHANGED Other
    PROVE  /\ goal' \in [Clients -> {"install", "restart"}]
           /\ starts' \in [Clients -> Nat]
           /\ carried' \in BOOLEAN
           /\ carried' = carried
  BY DEF IInv, TypeOK, ClientsOK, Other

LEMMA GotoKeepsTypes ==
    ASSUME IInv, NEW c \in Clients, NEW p, Fits(c, p), Goto(c, p), NoFault \/ Fault, UNCHANGED Other
    PROVE  Moved(c, p) /\ carried' = carried
<1>1. ClientsOK
  BY DEF IInv, TypeOK
<1> QED
  BY <1>1, OtherTyped, GotoMoves

(* A client that only looks. *)
LEMMA LooksAndGoes ==
    ASSUME IInv, NEW c \in Clients, NEW p, Fits(c, p), Goto(c, p), NoFault \/ Fault,
           UNCHANGED <<host, Other>>, Entitled(c, p)
    PROVE  IInv'
<1>1. Moved(c, p) /\ carried' = carried
  BY GotoKeepsTypes
<1>2. UNCHANGED <<tree, lock, claim>>
  BY DEF host
<1>3. TreeOK'
  BY <1>2 DEF IInv, TypeOK, TreeOK
<1>4. Installed' <=> Installed
  BY <1>2 DEF Installed
<1> QED
  BY <1>1, <1>2, <1>3, <1>4, LooksKeep

LEMMA AsksKeeps ==
    ASSUME IInv, NEW c \in Clients, NEW p, NEW q, Fits(c, p), Fits(c, q), Asks(c, p, q),
           UNCHANGED <<host, Other>>, Entitled(c, p), Entitled(c, q)
    PROVE  IInv'
  BY LooksAndGoes DEF Asks

LEMMA TakesLockKeeps ==
    ASSUME IInv, NEW c \in Deployers, NEW can, can => LockIsOpen /\ tree.there,
           NEW held, NEW busy, NEW failed, TakesLock(c, can, held, busy, failed),
           Fits(c, held), Fits(c, busy), Fits(c, failed),
           held \in EarlyPlaces, Idle(busy), Idle(failed)
    PROVE  IInv'
<1> USE DEF Clients
<1>1. UNCHANGED <<tree, claim, Other>>
  BY DEF TakesLock
<1>2. ASSUME NEW p, Goto(c, p), NoFault \/ Fault, Fits(c, p), UNCHANGED lock, Idle(p) PROVE IInv'
  BY <1>1, <1>2, LooksAndGoes, IdleEntitled DEF host
<1>3. ASSUME NEW p, Goto(c, p), NoFault \/ Fault, Fits(c, p), can, PutLock(c), p \in EarlyPlaces \/ Idle(p)
      PROVE  IInv'
  <2>1. Moved(c, p) /\ carried' = carried
    BY <1>1, <1>3, GotoKeepsTypes
  <2> QED
    BY <1>1, <1>3, <2>1, LockTaken
<1> QED
  BY <1>2, <1>3 DEF TakesLock, Takes

LEMMA TakesClaimKeeps ==
    ASSUME IInv, NEW c \in Clients, NEW can, can => claim = NoClaim \/ claim.stale,
           NEW held, NEW busy, NEW failed, TakesClaim(c, can, held, busy, failed),
           Fits(c, held), Fits(c, busy), Fits(c, failed),
           held \in ClaimPlaces \ TokenPlaces, Idle(busy), Idle(failed)
    PROVE  IInv'
<1>1. UNCHANGED <<tree, lock, Other>>
  BY DEF TakesClaim
<1>2. ASSUME NEW p, Goto(c, p), NoFault \/ Fault, Fits(c, p), UNCHANGED claim, Idle(p) PROVE IInv'
  BY <1>1, <1>2, LooksAndGoes, IdleEntitled DEF host
<1>3. ASSUME NEW p, Goto(c, p), NoFault \/ Fault, Fits(c, p), can, PutClaim(c),
             p \in ClaimPlaces \ TokenPlaces \/ Idle(p)
      PROVE  IInv'
  <2>1. Moved(c, p) /\ carried' = carried
    BY <1>1, <1>3, GotoKeepsTypes
  <2>2. claim' = [owner |-> c, token |-> None, stale |-> FALSE]
    BY <1>3 DEF PutClaim
  <2>3. ClaimOK' /\ claim'.owner = c /\ ~claim'.stale
    BY <2>2 DEF ClaimOK
  <2>4. p \notin LockPlaces \cup InstalledPlaces \cup OpenPlaces /\ p \notin TokenPlaces
    BY <1>3, PlacesApart DEF Idle
  <2>5. \A d \in Clients : pc[d] \notin ClaimPlaces
    BY <1>3, StaleIsFree DEF IInv
  <2> QED
    BY <1>1, <2>1, <2>3, <2>4, <2>5, ClaimChanged
<1> QED
  BY <1>2, <1>3 DEF TakesClaim, Takes

LEMMA WritesTokenKeeps ==
    ASSUME IInv, NEW c \in Clients, pc[c] \in ClaimPlaces, NEW owned, NEW failed,
           WritesToken(c, owned, failed), Fits(c, owned), Fits(c, failed), Idle(failed),
           owned \in {"recoverRelease", "fenceInstalled", "gcLockAgain"}
    PROVE  IInv'
<1>1. UNCHANGED <<tree, lock, Other>>
  BY DEF WritesToken
<1>2. claim # NoClaim /\ claim.owner = c /\ ~claim.stale
  BY ClientsAssumption DEF IInv, HeldClaim, NoClaim
<1>3. claim \in [owner : Clients, token : Clients \cup {None}, stale : BOOLEAN]
  BY <1>2 DEF IInv, TypeOK, ClaimOK
<1>4. \A d \in Clients : d # c => pc[d] \notin ClaimPlaces
  BY OneClaimant DEF IInv
<1>5. ASSUME NEW p, Goto(c, p), NoFault \/ Fault, Fits(c, p), claim' \in {claim, NoClaim}, Idle(p)
      PROVE  IInv'
  <2>1. Moved(c, p) /\ carried' = carried
    BY <1>1, <1>5, GotoKeepsTypes
  <2>2. ClaimOK'
    BY <1>3, <1>5 DEF ClaimOK
  <2>3. p \notin LockPlaces \cup InstalledPlaces \cup OpenPlaces /\ p \notin ClaimPlaces /\ p \notin TokenPlaces
    BY <1>5, PlacesApart DEF Idle
  <2> QED
    BY <1>1, <1>4, <2>1, <2>2, <2>3, ClaimChanged
<1>6. ASSUME NEW p, Goto(c, p), NoFault \/ Fault, Fits(c, p), WriteToken(c), Idle(p) \/ p = owned
      PROVE  IInv'
  <2>1. Moved(c, p) /\ carried' = carried
    BY <1>1, <1>6, GotoKeepsTypes
  <2>2. claim' = [claim EXCEPT !.token = c]
    BY <1>6 DEF WriteToken
  <2>3. claim' \in [owner : Clients, token : Clients \cup {None}, stale : BOOLEAN]
    BY <1>3, <2>2
  <2>4. claim'.owner = c /\ ~claim'.stale /\ claim'.token = c
    BY <1>2, <1>3, <2>2
  <2>5. ClaimOK'
    BY <2>3 DEF ClaimOK
  <2>6. p \notin LockPlaces \cup InstalledPlaces \cup OpenPlaces
    <3>1. CASE Idle(p)
      BY <3>1, PlacesApart DEF Idle
    <3>2. CASE p = owned
      BY <3>2 DEF LockPlaces, InstalledPlaces, OpenPlaces
    <3> QED
      BY <1>6, <3>1, <3>2
  <2> QED
    BY <1>1, <1>4, <2>1, <2>4, <2>5, <2>6, ClaimChanged
<1> QED
  BY <1>5, <1>6 DEF WritesToken

LEMMA DropsLockKeeps ==
    ASSUME IInv, NEW c \in Deployers, pc[c] \in LockPlaces, NEW next, DropsLock(c, next),
           Fits(c, next), Idle(next)
    PROVE  IInv'
<1> USE DEF Clients
<1>1. UNCHANGED <<tree, claim, Other>> /\ Goto(c, next) /\ (NoFault \/ Fault)
  BY DEF DropsLock
<1>2. CASE RemoveLock
  <2>1. Moved(c, next) /\ carried' = carried
    BY <1>1, GotoKeepsTypes
  <2> QED
    BY <1>1, <1>2, <2>1, LockDropped
<1>3. CASE UNCHANGED lock
  BY <1>1, <1>3, LooksAndGoes, IdleEntitled DEF host
<1> QED
  BY <1>2, <1>3 DEF DropsLock

(* The claim of a client that holds its token is gone when it is released. *)
LEMMA ReleaseKeeps ==
    ASSUME IInv, NEW c \in Clients, pc[c] \in TokenPlaces, NEW p, Goto(c, p), NoFault \/ Fault,
           Fits(c, p), Idle(p), UNCHANGED <<tree, lock, Other>>, ReleaseClaim(c) \/ UNCHANGED claim
    PROVE  IInv'
<1>1. Moved(c, p) /\ carried' = carried
  BY GotoKeepsTypes
<1>2. ClaimOK'
  BY DEF IInv, TypeOK, ClaimOK, ReleaseClaim
<1>3. p \notin LockPlaces \cup InstalledPlaces \cup OpenPlaces /\ p \notin ClaimPlaces /\ p \notin TokenPlaces
  BY PlacesApart DEF Idle
<1>4. \A d \in Clients : d # c => pc[d] \notin ClaimPlaces
  BY OneClaimant, PlacesApart DEF IInv
<1> QED
  BY <1>1, <1>2, <1>3, <1>4, ClaimChanged

LEMMA DropsClaimKeeps ==
    ASSUME IInv, NEW c \in Clients, pc[c] \in TokenPlaces, NEW next, DropsClaim(c, next),
           Fits(c, next), Idle(next)
    PROVE  IInv'
  BY ReleaseKeeps DEF DropsClaim

(* The directory is made, or marked complete. *)
LEMMA GrowsKeeps ==
    ASSUME IInv, NEW c \in Clients, NEW p, Goto(c, p), NoFault \/ Fault, Fits(c, p), Entitled(c, p),
           MakeTree \/ (tree.there /\ Complete) \/ UNCHANGED tree, UNCHANGED <<lock, claim, Other>>
    PROVE  IInv'
<1>1. Moved(c, p) /\ carried' = carried
  BY GotoKeepsTypes
<1>2. TreeOK
  BY DEF IInv, TypeOK
<1>3. TreeOK' /\ (tree.there => tree'.there) /\ (Installed => Installed') /\ (tree'.alive => tree.alive)
  BY <1>2 DEF TreeOK, Installed, MakeTree, Complete
<1> QED
  BY <1>1, <1>3, LooksKeep

LEMMA MakesParentKeeps ==
    ASSUME IInv, NEW c \in Clients, NEW next, NEW failed, MakesParent(c, next, failed),
           Fits(c, next), Fits(c, failed), Idle(next), Idle(failed)
    PROVE  IInv'
  BY GrowsKeeps, IdleEntitled DEF MakesParent

(* A client that starts, or starts over. *)
LEMMA PlainKeep ==
    ASSUME IInv, NEW c \in Clients, NEW p, Fits(c, p), Idle(p), Goto(c, p), NoFault \/ Fault,
           UNCHANGED <<host, carried>>,
           goal' \in [Clients -> {"install", "restart"}], starts' \in [Clients -> Nat]
    PROVE  IInv'
<1>1. ClientsOK /\ carried' \in BOOLEAN
  BY DEF IInv, TypeOK, ClientsOK
<1>2. Moved(c, p)
  BY <1>1, GotoMoves
<1>3. UNCHANGED <<tree, lock, claim>>
  BY DEF host
<1>4. TreeOK' /\ (Installed' <=> Installed)
  BY <1>3 DEF IInv, TypeOK, TreeOK, Installed
<1> QED
  BY <1>2, <1>3, <1>4, LooksKeep, IdleEntitled

-----------------------------------------------------------------------------
(* The actions *)

(* The directory is moved away by the one who holds the claim. *)
LEMMA MoveKeeps ==
    ASSUME IInv, NEW g \in Collectors, pc[g] \in TokenPlaces, NEW p, Goto(g, p), NoFault \/ Fault,
           p \in {"gcRelease", "off"}, MoveTree, UNCHANGED <<claim, goal, starts>>
    PROVE  IInv'
<1> USE MovedFacts DEF Clients
<1>1. carried' = (carried \/ ~LockIsOpen) /\ carried' \in BOOLEAN
  BY DEF MoveTree
<1>2. Moved(g, p)
  <2>1. ClientsOK
    BY DEF IInv, TypeOK
  <2>2. Fits(g, p)
    BY DEF Fits, CollectorPlaces
  <2>3. goal' \in [Clients -> {"install", "restart"}] /\ starts' \in [Clients -> Nat]
    BY <2>1 DEF ClientsOK
  <2> QED
    BY <1>1, <2>1, <2>2, <2>3, GotoMoves
<1>3. tree' = NoTree /\ lock' = NoLock
  BY DEF MoveTree
<1>4. TypeOK'
  <2>1. TreeOK'
    BY <1>3 DEF TreeOK, NoTree
  <2>2. LockOK'
    BY <1>3 DEF LockOK, NoLock
  <2>3. ClaimOK'
    BY DEF IInv, TypeOK, ClaimOK
  <2> QED
    BY <1>2, <2>1, <2>2, <2>3 DEF TypeOK
<1>5. p \notin OpenPlaces /\ p \notin LockPlaces
  BY DEF OpenPlaces, LockPlaces
<1>6. HeldClaim'
  <2>1. pc[g] \in ClaimPlaces /\ HeldClaim
    BY PlacesApart DEF IInv
  <2>2. claim.owner = g /\ ~claim.stale /\ claim.token = g
    BY <2>1 DEF HeldClaim
  <2> QED
    BY <1>2, <2>1, <2>2 DEF HeldClaim
<1>7. ASSUME ~carried' PROVE HeldLock' /\ ReliesOnInstall' /\ CollectsIdle'
  <2>1. HeldLock /\ LockIsOpen /\ HeldClaim
    BY <1>1, <1>7 DEF IInv
  <2>2. \A c \in Deployers : pc'[c] = pc[c] /\ c # g
    BY <1>2, ClientsAssumption
  <2>3. \A c \in Deployers : pc'[c] \notin LockPlaces
    BY <2>1, <2>2, OpenIsFree
  <2>4. \A c \in Deployers : pc'[c] \notin ClaimPlaces
    BY <2>1, <2>2, OneClaimant, PlacesApart
  <2>5. HeldLock' /\ ReliesOnInstall'
    BY <2>3, <2>4, PlacesApart DEF HeldLock, ReliesOnInstall
  <2>6. ~tree'.alive
    BY <1>3 DEF NoTree
  <2>7. CollectsIdle'
    BY <2>3, <2>6 DEF CollectsIdle
  <2> QED
    BY <2>5, <2>7
<1> QED
  BY <1>4, <1>6, <1>7 DEF IInv

(* A daemon's socket appears behind a lock or a claim. *)
LEMMA GoLiveKeeps ==
    ASSUME IInv, NEW c \in Deployers, pc[c] \in {"launch", "launchUnowned", "launchFenced"},
           Installed, GoLive, NEW p, Goto(c, p), NoFault \/ Fault, Fits(c, p), Entitled(c, p),
           UNCHANGED <<lock, claim, Other>>
    PROVE  IInv'
<1> USE DEF Clients
<1>1. Moved(c, p) /\ carried' = carried
  BY GotoKeepsTypes
<1>2. TreeOK
  BY DEF IInv, TypeOK
<1>3. TreeOK' /\ tree'.there /\ Installed'
  BY <1>2 DEF TreeOK, Installed, GoLive
<1>4. ASSUME ~carried, NEW g \in Collectors PROVE pc[g] \notin DeadPlaces
  <2>1. HeldClaim /\ CollectsIdle /\ c # g
    BY <1>4, ClientsAssumption DEF IInv
  <2>2. CASE pc[c] \in LockPlaces \ EarlyPlaces
    BY <2>1, <2>2, PlacesApart DEF CollectsIdle
  <2>3. CASE pc[c] \in ClaimPlaces
    BY <2>1, <2>3, OneClaimant, PlacesApart
  <2> QED
    BY <2>2, <2>3 DEF LockPlaces, EarlyPlaces, ClaimPlaces
<1> QED
  BY <1>1, <1>3, <1>4, LooksKeep


LEMMA DeployKeeps ==
    ASSUME IInv, NEW c \in Deployers, Deploy(c) \/ Steal(c) \/ GiveUp(c) \/ Disconnect(c)
    PROVE  IInv'
<1> USE DEF Clients, At, Fits, Idle, Entitled, DeployerPlaces, CollectorPlaces, LockPlaces, ClaimPlaces, TokenPlaces, EarlyPlaces,
         InstalledPlaces, OpenPlaces, DeadPlaces
<1>a. lock.stale => tree.there
  BY DEF IInv, TypeOK, LockOK, NoLock
<1>1. CASE Recover(c)
  BY <1>1, TakesClaimKeeps DEF Recover
<1>2. CASE RecoverOwner(c)
  BY <1>2, WritesTokenKeeps DEF RecoverOwner
<1>3. CASE MakeParent(c)
  BY <1>3, MakesParentKeeps DEF MakeParent
<1>4. CASE Create(c)
  BY <1>4, <1>a, TakesLockKeeps DEF Create, CanCreateLock, LockIsOpen
<1>5. CASE Steal(c)
  BY <1>5, <1>a, TakesLockKeeps DEF Steal, CanStealLock, LockIsOpen
<1>6. CASE BackOff(c)
  BY <1>6, DropsLockKeeps DEF BackOff
<1>7. CASE AbandonInstall(c)
  BY <1>7, DropsLockKeeps DEF AbandonInstall
<1>8. CASE RepairParent(c)
  BY <1>8, MakesParentKeeps DEF RepairParent
<1>9. CASE RepairCreate(c)
  BY <1>9, <1>a, TakesLockKeeps DEF RepairCreate, CanCreateLock, LockIsOpen
<1>10. CASE RepairSteal(c)
  BY <1>10, <1>a, TakesLockKeeps DEF RepairSteal, CanStealLock, LockIsOpen
<1>11. CASE RepairBackOff(c)
  BY <1>11, DropsLockKeeps DEF RepairBackOff
<1>12. CASE Fence(c)
  BY <1>12, TakesClaimKeeps DEF Fence
<1>13. CASE FenceOwner(c)
  BY <1>13, WritesTokenKeeps DEF FenceOwner
<1>14. CASE FenceBackOff(c)
  BY <1>14, DropsClaimKeeps DEF FenceBackOff
<1>15. CASE Release(c)
  BY <1>15, DropsLockKeeps DEF Release
<1>16. CASE ReleaseFence(c)
  BY <1>16, DropsClaimKeeps DEF ReleaseFence
<1>17. CASE WaitProbe(c)
  BY <1>17, AsksKeeps DEF WaitProbe, AfterWait
<1>18. CASE StealNotDue(c)
  BY <1>18, LooksAndGoes DEF StealNotDue
<1>19. CASE Recheck(c)
  BY <1>19, AsksKeeps DEF Recheck
<1>20. CASE ProbeAgain(c)
  BY <1>20, AsksKeeps DEF ProbeAgain, Installed, host
<1>21. CASE RepairProbe(c)
  BY <1>21, AsksKeeps DEF RepairProbe
<1>22. CASE Classify(c)
  BY <1>22, AsksKeeps DEF Classify
<1>23. CASE RepairRecheck(c)
  BY <1>23, AsksKeeps DEF RepairRecheck
<1>24. CASE Repair(c)
  BY <1>24, AsksKeeps DEF Repair
<1>25. CASE GiveUp(c)
  BY <1>25, LooksAndGoes DEF GiveUp
<1>26. CASE Disconnect(c)
  BY <1>26, LooksAndGoes DEF Disconnect
<1>27. CASE Probe(c) \/ Conflict(c)
  <2>1. ClientsOK
    BY DEF IInv, TypeOK
  <2>2. starts' \in [Clients -> Nat] /\ goal' \in [Clients -> {"install", "restart"}]
    BY <1>27, <2>1 DEF Probe, Conflict, ClientsOK
  <2>3. PICK p \in {"repair", "wait"} : Goto(c, p)
    BY <1>27 DEF Probe, Conflict, Asks
  <2>4. (NoFault \/ Fault) /\ UNCHANGED <<host, carried>>
    BY <1>27 DEF Probe, Conflict, Asks, NoFault
  <2> QED
    BY <2>2, <2>3, <2>4, PlainKeep
<1>28. CASE RecoverRelease(c)
  BY <1>28, ReleaseKeeps DEF RecoverRelease, AfterWait
<1>29. CASE RepairInstalled(c) \/ FenceInstalled(c)
  BY <1>29, LooksAndGoes DEF RepairInstalled, FenceInstalled, Asks, Installed, host
<1>30. CASE Upload(c)
  BY <1>30, GrowsKeeps DEF Upload
<1>31. CASE FinalizeInstall(c)
  BY <1>31, GrowsKeeps DEF FinalizeInstall, Installed, Complete, IInv, TypeOK, TreeOK
<1>32. CASE Launch(c)
  BY <1>32, GoLiveKeeps, GrowsKeeps DEF Launch, AfterLaunch
<1> QED
  BY <1>1, <1>2, <1>3, <1>4, <1>5, <1>6, <1>7, <1>8, <1>9, <1>10, <1>11, <1>12, <1>13, <1>14, <1>15, <1>16, <1>17, <1>18, <1>19, <1>20, <1>21, <1>22, <1>23, <1>24, <1>25, <1>26, <1>27, <1>28, <1>29, <1>30, <1>31, <1>32 DEF Deploy, AcquireInstallLock,
     WaitForClaimRelease, Install, Reconnect

LEMMA CollectKeeps ==
    ASSUME IInv, NEW g \in Collectors, Collect(g)
    PROVE  IInv'
<1> USE DEF Clients, At, Fits, Idle, Entitled, DeployerPlaces, CollectorPlaces, LockPlaces, ClaimPlaces, TokenPlaces, EarlyPlaces,
         InstalledPlaces, OpenPlaces, DeadPlaces
<1>1. CASE GcLook(g)
  BY <1>1, AsksKeeps DEF GcLook, SafeToRemove
<1>2. CASE GcClaim(g)
  BY <1>2, TakesClaimKeeps DEF GcClaim
<1>3. CASE GcOwner(g)
  BY <1>3, WritesTokenKeeps DEF GcOwner
<1>4. CASE GcLookAgain(g)
  BY <1>4, AsksKeeps DEF GcLookAgain, SafeToRemove
<1>5. CASE GcOwned(g)
  BY <1>5, AsksKeeps DEF GcOwned
<1>6. CASE GcMove(g)
  <2>1. CASE MoveTree
    BY <1>6, <2>1, MoveKeeps DEF GcMove
  <2>2. CASE UNCHANGED <<tree, lock, carried>>
    BY <1>6, <2>2, LooksAndGoes DEF GcMove, host, Other
  <2> QED
    BY <1>6, <2>1, <2>2 DEF GcMove
<1>7. CASE GcRelease(g)
  BY <1>7, DropsClaimKeeps DEF GcRelease
<1> QED
  BY <1>1, <1>2, <1>3, <1>4, <1>5, <1>6, <1>7 DEF Collect


LEMMA StartStopKeeps ==
    ASSUME IInv, NEW c \in Clients, Start(c) \/ Stop(c)
    PROVE  IInv'
<1> USE DEF Fits, Idle, Entitled, DeployerPlaces, CollectorPlaces, LockPlaces, ClaimPlaces, TokenPlaces, EarlyPlaces,
         InstalledPlaces, OpenPlaces, DeadPlaces
<1>1. CASE Start(c)
  BY <1>1, PlainKeep, ClientsAssumption DEF Start, Clients, IInv, TypeOK, ClientsOK, NoFault
<1>2. CASE Stop(c)
  BY <1>2, LooksAndGoes DEF Stop
<1> QED
  BY <1>1, <1>2

LEMMA TimeKeeps ==
    ASSUME IInv, DaemonExits \/ LockGoesStale \/ ClaimGoesStale
    PROVE  IInv'
<1>1. CASE DaemonExits
  <2>1. UNCHANGED <<lock, claim, pc, goal, starts, carried, faults>>
    BY <1>1 DEF DaemonExits, Other
  <2>2. tree' = [tree EXCEPT !.alive = FALSE] /\ TreeOK
    BY <1>1 DEF DaemonExits, IInv, TypeOK
  <2>3. TreeOK' /\ tree'.there = tree.there /\ tree'.complete = tree.complete /\ ~tree'.alive
    BY <2>2 DEF TreeOK
  <2>4. TypeOK' /\ HeldClaim'
    BY <2>1, <2>3 DEF IInv, TypeOK, LockOK, ClaimOK, ClientsOK, HeldClaim
  <2>5. ASSUME ~carried PROVE HeldLock' /\ ReliesOnInstall' /\ CollectsIdle'
    BY <2>1, <2>3, <2>5 DEF IInv, HeldLock, ReliesOnInstall, CollectsIdle, Installed
  <2> QED
    BY <2>1, <2>4, <2>5 DEF IInv
<1>2. CASE LockGoesStale
  <2>1. UNCHANGED <<tree, claim, pc, goal, starts, carried, faults>>
    BY <1>2 DEF LockGoesStale, Other
  <2>2. lock \in [owner : Deployers, stale : BOOLEAN] /\ tree.there
    BY <1>2 DEF LockGoesStale, IInv, TypeOK, LockOK
  <2>3. lock' = [owner |-> lock.owner, stale |-> TRUE] /\ pc[lock.owner] \notin LockPlaces
    BY <1>2, <2>2 DEF LockGoesStale
  <2>4. TypeOK' /\ HeldClaim'
    BY <2>1, <2>2, <2>3 DEF IInv, TypeOK, TreeOK, LockOK, ClaimOK, ClientsOK, HeldClaim
  <2>5. ASSUME ~carried PROVE HeldLock' /\ ReliesOnInstall' /\ CollectsIdle'
    <3>1. HeldLock /\ ReliesOnInstall /\ CollectsIdle
      BY <2>5 DEF IInv
    <3>2. \A c \in Deployers : pc[c] \notin LockPlaces
      BY <2>3, <3>1 DEF HeldLock
    <3> QED
      BY <2>1, <3>1, <3>2 DEF HeldLock, ReliesOnInstall, CollectsIdle, Installed
  <2> QED
    BY <2>1, <2>4, <2>5 DEF IInv
<1>3. CASE ClaimGoesStale
  <2>1. UNCHANGED <<tree, lock, pc, goal, starts, carried, faults>>
    BY <1>3 DEF ClaimGoesStale, Other
  <2>2. claim \in [owner : Clients, token : Clients \cup {None}, stale : BOOLEAN]
    BY <1>3 DEF ClaimGoesStale, IInv, TypeOK, ClaimOK
  <2>3. claim' = [owner |-> claim.owner, token |-> claim.token, stale |-> TRUE]
    BY <1>3, <2>2 DEF ClaimGoesStale
  <2>4. TypeOK'
    BY <2>1, <2>2, <2>3 DEF IInv, TypeOK, TreeOK, LockOK, ClaimOK, ClientsOK
  <2>5. \A c \in Clients : pc[c] \notin ClaimPlaces
    BY <1>3 DEF ClaimGoesStale, IInv, HeldClaim
  <2>6. HeldClaim'
    BY <2>1, <2>5, PlacesApart DEF HeldClaim
  <2>7. ASSUME ~carried PROVE HeldLock' /\ ReliesOnInstall' /\ CollectsIdle'
    BY <2>1, <2>7 DEF IInv, HeldLock, ReliesOnInstall, CollectsIdle, Installed
  <2> QED
    BY <2>1, <2>4, <2>6, <2>7 DEF IInv
<1> QED
  BY <1>1, <1>2, <1>3

-----------------------------------------------------------------------------
(* Theorems *)

(* The invariant holds in every state: the ground of the theorems below. *)
THEOREM RelayInvariant == Spec => []IInv
<1>1. Init => IInv
  <2> SUFFICES ASSUME Init PROVE IInv
    OBVIOUS
  <2>1. TreeOK /\ LockOK /\ ClaimOK
    <3>1. PICK x \in BOOLEAN : tree = [there |-> x, complete |-> x, alive |-> FALSE]
      BY DEF Init, NoTree
    <3>2. tree \in [there : BOOLEAN, complete : BOOLEAN, alive : BOOLEAN]
      BY <3>1
    <3>3. tree.there = x /\ tree.complete = x /\ tree.alive = FALSE
      BY <3>1
    <3> QED
      BY <3>2, <3>3 DEF Init, TreeOK, LockOK, ClaimOK
  <2>2. ClientsOK /\ \A c \in Clients : pc[c] = "off"
    BY DEF Init, ClientsOK, DeployerPlaces, CollectorPlaces, Clients
  <2>3. \A c \in Clients : pc[c] \notin LockPlaces \cup ClaimPlaces \cup TokenPlaces \cup InstalledPlaces
                                         \cup OpenPlaces \cup DeadPlaces
    BY <2>2 DEF LockPlaces, ClaimPlaces, TokenPlaces, InstalledPlaces, OpenPlaces, DeadPlaces
  <2> QED
    BY <2>1, <2>2, <2>3 DEF IInv, TypeOK, HeldClaim, HeldLock, ReliesOnInstall, CollectsIdle, Clients
<1>2. IInv /\ [Next]_vars => IInv'
  <2> SUFFICES ASSUME IInv, [Next]_vars PROVE IInv'
    OBVIOUS
  <2>1. ASSUME NEW c \in Deployers, Deploy(c) \/ Steal(c) \/ GiveUp(c) \/ Disconnect(c) PROVE IInv'
    BY <2>1, DeployKeeps
  <2>2. ASSUME NEW g \in Collectors, Collect(g) PROVE IInv'
    BY <2>2, CollectKeeps
  <2>3. ASSUME NEW c \in Clients, Start(c) \/ Stop(c) PROVE IInv'
    BY <2>3, StartStopKeeps
  <2>4. CASE DaemonExits \/ LockGoesStale \/ ClaimGoesStale
    BY <2>4, TimeKeeps
  <2>5. CASE UNCHANGED vars
    BY <2>5 DEF vars, host, IInv, TypeOK, TreeOK, LockOK, ClaimOK, ClientsOK, HeldClaim, HeldLock,
       ReliesOnInstall, CollectsIdle, Installed
  <2> QED
    BY <2>1, <2>2, <2>3, <2>4, <2>5 DEF Next
<1> QED
  BY <1>1, <1>2, PTL DEF Spec

(* The host and the clients keep their types. *)
THEOREM RelayTypes == Spec => []TypeOK
<1>1. IInv => TypeOK
  BY DEF IInv
<1> QED
  BY <1>1, RelayInvariant, PTL

(* Two deployers never write the directory at once, unless a collector       *)
(* carried away a lock created after it looked.                              *)
THEOREM RelayExcludes == Spec => []ExclusionUnlessCarried
<1>1. IInv => ExclusionUnlessCarried
  <2> SUFFICES ASSUME IInv, ~carried, NEW c \in Deployers, NEW d \in Deployers, Writes(c), Writes(d)
               PROVE  c = d
    BY DEF ExclusionUnlessCarried, OneInstaller
  <2>1. pc[c] \in LockPlaces /\ pc[d] \in LockPlaces
    BY DEF Writes, LockPlaces
  <2> QED
    BY <2>1, OneHolder DEF IInv
<1> QED
  BY <1>1, RelayInvariant, PTL

(* A launch is guarded by a lock or a claim, with the same exception. *)
THEOREM RelayLaunchIsFenced == Spec => []LaunchIsFenced
<1>1. IInv => LaunchIsFenced
  <2> SUFFICES ASSUME IInv, ~carried, NEW c \in Deployers, Launches(c)
               PROVE  Installed /\ (lock.owner = c \/ claim.token = c)
    BY DEF LaunchIsFenced
  <2>1. HeldLock /\ HeldClaim /\ ReliesOnInstall
    BY DEF IInv
  <2>2. Installed
    BY <2>1 DEF ReliesOnInstall, InstalledPlaces, Launches
  <2>3. CASE pc[c] = "launchFenced"
    <3>1. pc[c] \in TokenPlaces
      BY <2>3 DEF TokenPlaces, ClaimPlaces
    <3> QED
      BY <2>1, <2>2, <3>1 DEF HeldClaim, Clients
  <2>4. CASE pc[c] # "launchFenced"
    <3>1. pc[c] \in LockPlaces
      BY <2>4 DEF Launches, LockPlaces
    <3>2. lock = [owner |-> c, stale |-> FALSE]
      BY <2>1, <3>1 DEF HeldLock
    <3> QED
      BY <2>2, <3>2
  <2> QED
    BY <2>3, <2>4
<1> QED
  BY <1>1, RelayInvariant, PTL

(* Only a move makes the directory go. *)
LEMMA OnlyMoves ==
    ASSUME IInv, Next, tree.there, ~tree'.there
    PROVE  \E g \in Collectors : GcMove(g)
<1>1. tree' # tree
  OBVIOUS
<1>2. tree \in [there : BOOLEAN, complete : BOOLEAN, alive : BOOLEAN]
  BY DEF IInv, TypeOK, TreeOK
<1>3. ~MakeTree /\ ~Complete /\ ~GoLive
  BY <1>2 DEF MakeTree, Complete, GoLive
<1>4. ~DaemonExits
  BY <1>2 DEF DaemonExits
<1>5. ASSUME NEW c \in Deployers PROVE ~(Deploy(c) \/ Steal(c) \/ GiveUp(c) \/ Disconnect(c))
  <2>1. ~(Install(c) \/ Launch(c))
    BY <1>1, <1>3 DEF Install, ProbeAgain, Upload, FinalizeInstall, AbandonInstall, DropsLock, Launch, host
  <2>2. ~(AcquireInstallLock(c) \/ Steal(c))
    BY <1>1, <1>3 DEF AcquireInstallLock, WaitForClaimRelease, WaitProbe, Recover, RecoverOwner,
       RecoverRelease, TakesClaim, WritesToken, MakeParent, MakesParent, Create, TakesLock, Steal,
       StealNotDue, Recheck, BackOff, DropsLock, host
  <2>3. ~Reconnect(c)
    BY <1>1, <1>3 DEF Reconnect, RepairProbe, RepairParent, MakesParent, RepairCreate, TakesLock,
       RepairSteal, Classify, RepairRecheck, RepairBackOff, DropsLock, RepairInstalled, Repair, Fence,
       TakesClaim, FenceOwner, WritesToken, FenceInstalled, FenceBackOff, DropsClaim, host
  <2> QED
    BY <1>1, <2>1, <2>2, <2>3 DEF Deploy, Probe, Conflict, Release, DropsLock, ReleaseFence, DropsClaim,
       GiveUp, Disconnect, host
<1>6. ASSUME NEW g \in Collectors, Collect(g) PROVE GcMove(g)
  BY <1>1, <1>6 DEF Collect, GcLook, GcLookAgain, SafeToRemove, GcClaim, TakesClaim, GcOwner, WritesToken,
     GcOwned, GcRelease, DropsClaim, host
<1>7. ASSUME NEW c \in Clients PROVE ~(Start(c) \/ Stop(c))
  BY <1>1 DEF Start, Stop, host
<1>8. ~LockGoesStale /\ ~ClaimGoesStale
  BY <1>1 DEF LockGoesStale, ClaimGoesStale
<1> QED
  BY <1>4, <1>5, <1>6, <1>7, <1>8 DEF Next

(* No move takes a directory from under a deployer, nor a live daemon's,      *)
(* unless a lock was carried away before.                                     *)
THEOREM RelayMovesSafely == Spec => MoveIsSafe
<1> DEFINE Safe == tree.there /\ ~tree'.there =>
                      carried \/ (~tree.alive /\ \A c \in Deployers : ~Writes(c) /\ ~Launches(c))
<1>1. IInv /\ [Next]_vars => [Safe]_vars
  <2> SUFFICES ASSUME IInv, Next, tree.there, ~tree'.there, ~carried
               PROVE  ~tree.alive /\ \A c \in Deployers : ~Writes(c) /\ ~Launches(c)
    BY DEF vars, host
  <2>1. PICK g \in Collectors : GcMove(g)
    BY OnlyMoves
  <2>2. pc[g] \in DeadPlaces
    BY <2>1 DEF GcMove, At, DeadPlaces
  <2>3. CollectsIdle /\ HeldClaim
    BY DEF IInv
  <2>4. ~tree.alive
    BY <2>2, <2>3 DEF CollectsIdle
  <2>5. ASSUME NEW c \in Deployers PROVE pc[c] \notin LockPlaces \ EarlyPlaces /\ pc[c] \notin ClaimPlaces
    <3>1. c # g /\ c \in Clients /\ g \in Clients
      BY ClientsAssumption DEF Clients
    <3> QED
      BY <2>2, <2>3, <3>1, PlacesApart, OneClaimant DEF CollectsIdle
  <2>6. ASSUME NEW c \in Deployers PROVE ~Writes(c) /\ ~Launches(c)
    BY <2>5 DEF Writes, Launches, LockPlaces, EarlyPlaces, ClaimPlaces
  <2> QED
    BY <2>4, <2>6
<1> QED
  BY <1>1, RelayInvariant, PTL DEF Spec, MoveIsSafe
=============================================================================
