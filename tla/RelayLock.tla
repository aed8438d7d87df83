------------------------------ MODULE RelayLock ------------------------------
(***************************************************************************)
(* One version directory of the relay on a remote host, with the clients   *)
(* that deploy this version and those that collect it as an old one.  They *)
(* share nothing but the host's file system: an install lock inside the    *)
(* directory, and a claim beside it, which collectors and launchers take   *)
(* and which survives a move of the directory.                             *)
(*                                                                         *)
(* A step is one command on the host.  A command may fail, its reply may   *)
(* be lost after it ran, and a client may stop between any two.  The lock  *)
(* does not say whose it is: its owner is recorded for the properties and  *)
(* for the passing of time, and no guard of a command looks at it.         *)
(***************************************************************************)
EXTENDS Naturals

CONSTANTS
    Deployers,      \* clients of this version
    Collectors,     \* clients of another version
    None,           \* nobody
    MaxStarts,      \* bound: how often each client starts
    MaxFaults       \* bound: commands that fail, replies lost, clients that stop

Clients == Deployers \cup Collectors

ASSUME ClientsAssumption ==
    /\ Deployers \cap Collectors = {}
    /\ None \notin Clients
    /\ MaxStarts \in [Clients -> Nat]
    /\ MaxFaults \in Nat

VARIABLES
    tree,       \* the directory: is it there, has it the sentinel, is a daemon's socket in it
    lock,       \* .install-lock in the directory
    claim,      \* .gc-claim beside it, with the token in its .gc-owner
    pc,         \* the next command of each client
    goal,       \* what a deployer does once no claim is left
    starts,     \* starts so far
    faults,     \* faults so far
    carried     \* history: a move took a lock along that was not stale

host == <<tree, lock, claim>>
vars == <<host, pc, goal, starts, faults, carried>>

-----------------------------------------------------------------------------
(* What the commands do on the host *)

NoTree == [there |-> FALSE, complete |-> FALSE, alive |-> FALSE]
NoLock == [owner |-> None, stale |-> FALSE]
NoClaim == [owner |-> None, token |-> None, stale |-> FALSE]

Installed == tree.there /\ tree.complete

MakeTree == tree' = [tree EXCEPT !.there = TRUE]
Complete == tree' = [tree EXCEPT !.complete = TRUE]
GoLive == tree' = [tree EXCEPT !.alive = TRUE]

CanCreateLock == tree.there /\ lock = NoLock

(* Mutant: a lock is stolen whatever its age. *)
CanStealAnyLock == lock # NoLock

CanStealLock == lock.stale

PutLock(c) == lock' = [owner |-> c, stale |-> FALSE]

(* The lock is removed by its path, whoever's it is. *)
RemoveLock == lock' = NoLock

PutClaim(c) == claim' = [owner |-> c, token |-> None, stale |-> FALSE]

WriteToken(c) == claim # NoClaim /\ claim' = [claim EXCEPT !.token = c]

(* Only the claim with one's own token is removed. *)
ReleaseClaim(c) == claim' = IF claim.token = c THEN NoClaim ELSE claim

-----------------------------------------------------------------------------
(* Steps of a client *)

At(c, p) == pc[c] = p

Goto(c, p) == pc' = [pc EXCEPT ![c] = p]

NoFault == UNCHANGED faults

Fault == faults < MaxFaults /\ faults' = faults + 1

(* c goes on at p if the host answers, and at q if the command fails. *)
Asks(c, p, q) == (NoFault /\ Goto(c, p)) \/ (Fault /\ Goto(c, q))

Other == <<goal, starts, carried>>

(* A command that puts a lock or claim where it can: c goes on at `held` if it *)
(* did, at `busy` if it did not, and at `failed` if it does not know.          *)
Takes(c, can, put, keep, held, busy, failed) ==
    \/ NoFault /\ can /\ put /\ Goto(c, held)
    \/ NoFault /\ ~can /\ keep /\ Goto(c, busy)
    \/ Fault /\ (keep \/ (can /\ put)) /\ Goto(c, failed)

TakesLock(c, can, held, busy, failed) ==
    /\ Takes(c, can, PutLock(c), UNCHANGED lock, held, busy, failed)
    /\ UNCHANGED <<tree, claim, Other>>

TakesClaim(c, can, held, busy, failed) ==
    /\ Takes(c, can, PutClaim(c), UNCHANGED claim, held, busy, failed)
    /\ UNCHANGED <<tree, lock, Other>>

(* writeRelayGcClaimOwner: a token that may not have been written is released. *)
WritesToken(c, owned, failed) ==
    /\ \/ NoFault /\ WriteToken(c) /\ Goto(c, owned)
       \/ NoFault /\ claim = NoClaim /\ UNCHANGED claim /\ Goto(c, failed)
       \/ Fault /\ (claim' \in {claim, NoClaim} \/ WriteToken(c)) /\ Goto(c, failed)
    /\ UNCHANGED <<tree, lock, Other>>

DropsLock(c, next) ==
    /\ \/ NoFault /\ RemoveLock
       \/ Fault /\ UNCHANGED lock
    /\ Goto(c, next)
    /\ UNCHANGED <<tree, claim, Other>>

(* Asked again while the answer is unknown; a fault stands for all attempts. *)
DropsClaim(c, next) ==
    /\ \/ NoFault /\ ReleaseClaim(c)
       \/ Fault /\ UNCHANGED claim
    /\ Goto(c, next)
    /\ UNCHANGED <<tree, lock, Other>>

MakesParent(c, next, failed) ==
    /\ \/ NoFault /\ MakeTree /\ Goto(c, next)
       \/ Fault /\ (MakeTree \/ UNCHANGED tree) /\ Goto(c, failed)
    /\ UNCHANGED <<lock, claim, Other>>

-----------------------------------------------------------------------------
(* Waiting for a claim to be released: waitForRelayGcClaimRelease *)

(* Once no claim is left the deployer takes the lock, or starts over. *)
AfterWait(c) == IF goal[c] = "install" THEN "mkdir" ELSE "start"

(* Mutant: an abandoned claim is waited for and not recovered. *)
WaitProbeOnly(c) ==
    /\ At(c, "wait")
    /\ Asks(c, IF claim = NoClaim THEN AfterWait(c) ELSE "wait", "wait")
    /\ UNCHANGED <<host, Other>>

WaitProbe(c) ==
    /\ At(c, "wait")
    /\ Asks(c, IF claim = NoClaim THEN AfterWait(c) ELSE "recover", "recover")
    /\ UNCHANGED <<host, Other>>

Recover(c) == At(c, "recover") /\ TakesClaim(c, claim.stale, "recoverOwner", "wait", "wait")

RecoverOwner(c) == At(c, "recoverOwner") /\ WritesToken(c, "recoverRelease", "wait")

RecoverRelease(c) ==
    /\ At(c, "recoverRelease")
    /\ \/ /\ NoFault /\ ReleaseClaim(c)
          /\ Goto(c, IF claim = NoClaim \/ claim.token = c THEN AfterWait(c) ELSE "wait")
       \/ Fault /\ (ReleaseClaim(c) \/ UNCHANGED claim) /\ Goto(c, "wait")
    /\ UNCHANGED <<tree, lock, Other>>

WaitForClaimRelease(c) == WaitProbe(c) \/ Recover(c) \/ RecoverOwner(c) \/ RecoverRelease(c)

(* The loop around an attempt: a conflict with a collector is waited out. *)
Conflict(c) ==
    /\ At(c, "conflict")
    /\ Goto(c, "wait") /\ goal' = [goal EXCEPT ![c] = "restart"]
    /\ UNCHANGED <<host, starts, faults, carried>>

-----------------------------------------------------------------------------
(* Installing: acquireInstallLock and what it guards *)

Probe(c) ==
    /\ At(c, "start")
    /\ Asks(c, IF Installed THEN "repair" ELSE "wait", "wait")
    /\ goal' = [goal EXCEPT ![c] = "install"]
    /\ UNCHANGED <<host, starts, carried>>

MakeParent(c) == At(c, "mkdir") /\ MakesParent(c, "create", "off")

Create(c) == At(c, "create") /\ TakesLock(c, CanCreateLock, "recheck", "steal", "steal")

Steal(c) == At(c, "steal") /\ TakesLock(c, CanStealLock, "recheck", "wait", "wait")

(* The age of a lock is looked at once a minute. *)
StealNotDue(c) == At(c, "steal") /\ NoFault /\ Goto(c, "wait") /\ UNCHANGED <<host, Other>>

(* Mutant: the claim is not looked at once more. *)
RecheckNothing(c) ==
    /\ At(c, "recheck")
    /\ NoFault /\ Goto(c, "hold")
    /\ UNCHANGED <<host, Other>>

(* A collector may have claimed the directory before the lock was created. *)
Recheck(c) ==
    /\ At(c, "recheck")
    /\ Asks(c, IF claim = NoClaim THEN "hold" ELSE "backOff", "backOff")
    /\ UNCHANGED <<host, Other>>

BackOff(c) == At(c, "backOff") /\ DropsLock(c, "steal")

AcquireInstallLock(c) ==
    WaitForClaimRelease(c) \/ MakeParent(c) \/ Create(c) \/ StealNotDue(c) \/ Recheck(c) \/ BackOff(c)

(* A sibling may have finished while this one waited. *)
ProbeAgain(c) ==
    /\ At(c, "hold")
    /\ Asks(c, IF Installed THEN "launch" ELSE "upload", "upload")
    /\ UNCHANGED <<host, Other>>

Upload(c) ==
    /\ At(c, "upload")
    /\ \/ NoFault /\ MakeTree /\ Goto(c, "finalize")
       \/ Fault /\ (MakeTree \/ UNCHANGED tree) /\ Goto(c, "abandon")
    /\ UNCHANGED <<lock, claim, Other>>

(* Mutant: the sentinel is written whether or not the directory is there. *)
FinalizeAnywhere(c) ==
    /\ At(c, "finalize")
    /\ NoFault /\ Complete /\ Goto(c, "launch")
    /\ UNCHANGED <<lock, claim, Other>>

(* A directory that was moved away meanwhile cannot be marked. *)
FinalizeInstall(c) ==
    /\ At(c, "finalize")
    /\ \/ NoFault /\ tree.there /\ Complete /\ Goto(c, "launch")
       \/ NoFault /\ ~tree.there /\ UNCHANGED tree /\ Goto(c, "abandon")
       \/ Fault /\ (UNCHANGED tree \/ (tree.there /\ Complete)) /\ Goto(c, "abandon")
    /\ UNCHANGED <<lock, claim, Other>>

AbandonInstall(c) == At(c, "abandon") /\ DropsLock(c, "off")

Install(c) == ProbeAgain(c) \/ Upload(c) \/ FinalizeInstall(c) \/ AbandonInstall(c)

-----------------------------------------------------------------------------
(* Reconnecting to a directory that is installed: repairInstalledNativeDeps *)

(* tryAcquireRelayRepairLock asks once and does not wait. *)
RepairProbe(c) ==
    /\ At(c, "repair")
    /\ Asks(c, IF claim = NoClaim THEN "repairMkdir" ELSE "conflict", "fence")
    /\ UNCHANGED <<host, Other>>

RepairParent(c) == At(c, "repairMkdir") /\ MakesParent(c, "repairCreate", "classify")

RepairCreate(c) ==
    At(c, "repairCreate") /\ TakesLock(c, CanCreateLock, "repairRecheck", "repairSteal", "classify")

RepairSteal(c) ==
    At(c, "repairSteal") /\ TakesLock(c, CanStealLock, "repairRecheck", "classify", "classify")

(* A collector is in the way, or else another deployer or nobody knows who. *)
Classify(c) ==
    /\ At(c, "classify")
    /\ Asks(c, IF claim = NoClaim THEN "fence" ELSE "conflict", "fence")
    /\ UNCHANGED <<host, Other>>

RepairRecheck(c) ==
    /\ At(c, "repairRecheck")
    /\ Asks(c, IF claim = NoClaim THEN "repairInstalled" ELSE "repairYield", "repairUnsure")
    /\ UNCHANGED <<host, Other>>

(* The lock is given up: for a collector, or because nobody knows. *)
RepairBackOff(c) ==
    \/ At(c, "repairYield") /\ DropsLock(c, "conflict")
    \/ At(c, "repairUnsure") /\ DropsLock(c, "fence")

(* Probes made before the lock are not trusted. *)
RepairInstalled(c) ==
    /\ At(c, "repairInstalled")
    /\ \/ Asks(c, IF Installed THEN "repairing" ELSE "repairYield", "abandon")
       \/ Fault /\ Goto(c, "repairYield")
    /\ UNCHANGED <<host, Other>>

(* A repair that fails is no reason not to launch; one whose end is not      *)
(* confirmed leaves its lock to grow stale.                                  *)
Repair(c) ==
    /\ At(c, "repairing")
    /\ Asks(c, "launch", "launchUnowned")
    /\ UNCHANGED <<host, Other>>

(* acquireRelayLaunchGcFence: without the lock, the claim guards the launch. *)
Fence(c) ==
    \/ At(c, "fence") /\ TakesClaim(c, claim = NoClaim, "fenceOwner", "fenceSteal", "conflict")
    \/ At(c, "fenceSteal") /\ TakesClaim(c, claim.stale, "fenceOwner", "conflict", "conflict")

FenceOwner(c) == At(c, "fenceOwner") /\ WritesToken(c, "fenceInstalled", "conflict")

(* Mutant: what was seen before the claim is trusted. *)
FenceTrusts(c) ==
    /\ At(c, "fenceInstalled")
    /\ NoFault /\ Goto(c, "launchFenced")
    /\ UNCHANGED <<host, Other>>

FenceInstalled(c) ==
    /\ At(c, "fenceInstalled")
    /\ \/ Asks(c, IF Installed THEN "launchFenced" ELSE "fenceYield", "fenceFail")
       \/ Fault /\ Goto(c, "fenceYield")
    /\ UNCHANGED <<host, Other>>

FenceBackOff(c) ==
    \/ At(c, "fenceYield") /\ DropsClaim(c, "conflict")
    \/ At(c, "fenceFail") /\ DropsClaim(c, "off")

Reconnect(c) ==
    \/ RepairProbe(c) \/ RepairParent(c) \/ RepairCreate(c) \/ RepairSteal(c) \/ Classify(c)
    \/ RepairRecheck(c) \/ RepairBackOff(c) \/ RepairInstalled(c) \/ Repair(c)
    \/ Fence(c) \/ FenceOwner(c) \/ FenceInstalled(c) \/ FenceBackOff(c)

-----------------------------------------------------------------------------
(* Launching *)

AfterLaunch(c) ==
    CASE At(c, "launch") -> "release"
      [] At(c, "launchFenced") -> "releaseFence"
      [] OTHER -> "up"

(* The daemon's socket appears.  A launch that fails keeps lock and claim,   *)
(* for the detached start may outlive its command.                           *)
Launch(c) ==
    /\ pc[c] \in {"launch", "launchUnowned", "launchFenced"}
    /\ \/ NoFault /\ Installed /\ GoLive /\ Goto(c, AfterLaunch(c))
       \/ NoFault /\ ~Installed /\ UNCHANGED tree /\ Goto(c, "off")
       \/ Fault /\ (UNCHANGED tree \/ (Installed /\ GoLive)) /\ Goto(c, "off")
    /\ UNCHANGED <<lock, claim, Other>>

Release(c) == At(c, "release") /\ DropsLock(c, "up")

ReleaseFence(c) == At(c, "releaseFence") /\ DropsClaim(c, "up")

Deploy(c) ==
    \/ Probe(c) \/ Conflict(c) \/ AcquireInstallLock(c) \/ Install(c) \/ Reconnect(c)
    \/ Launch(c) \/ Release(c) \/ ReleaseFence(c)

(* The bounded wait for the lock ends, or the deploy is aborted. *)
GiveUp(c) == At(c, "wait") /\ NoFault /\ Goto(c, "off") /\ UNCHANGED <<host, Other>>

-----------------------------------------------------------------------------
(* Collecting: gcOldRelayVersions *)

LockIsOpen == lock = NoLock \/ lock.stale

(* isCandidateSafeToRemove: the lock, then the sentinel, then the socket. *)
SafeToRemove(g, p, q, r, safe, unsafe) ==
    /\ \/ At(g, p) /\ Asks(g, IF LockIsOpen THEN q ELSE unsafe, unsafe)
       \/ At(g, q) /\ Asks(g, IF Installed THEN r ELSE unsafe, unsafe)
       \/ At(g, r) /\ Asks(g, IF tree.alive THEN unsafe ELSE safe, unsafe)
    /\ UNCHANGED <<host, Other>>

GcLook(g) == SafeToRemove(g, "gcLock", "gcComplete", "gcSocket", "gcClaim", "off")

GcClaim(g) ==
    \/ At(g, "gcClaim") /\ TakesClaim(g, claim = NoClaim, "gcOwner", "gcSteal", "off")
    \/ At(g, "gcSteal") /\ TakesClaim(g, claim.stale, "gcOwner", "off", "off")

GcOwner(g) == At(g, "gcOwner") /\ WritesToken(g, "gcLockAgain", "off")

(* Under the claim nothing that was seen before is trusted. *)
GcLookAgain(g) ==
    SafeToRemove(g, "gcLockAgain", "gcCompleteAgain", "gcSocketAgain", "gcOwned", "gcRelease")

GcOwned(g) ==
    /\ At(g, "gcOwned")
    /\ Asks(g, IF claim.token = g THEN "gcMove" ELSE "gcRelease", "gcRelease")
    /\ UNCHANGED <<host, Other>>

(* The directory goes, with the lock in it. *)
MoveTree ==
    /\ tree.there
    /\ tree' = NoTree
    /\ lock' = NoLock
    /\ carried' = (carried \/ ~LockIsOpen)

(* A move whose end is not confirmed keeps the claim. *)
GcMove(g) ==
    /\ At(g, "gcMove")
    /\ \/ NoFault /\ MoveTree /\ Goto(g, "gcRelease")
       \/ NoFault /\ ~tree.there /\ UNCHANGED <<tree, lock, carried>> /\ Goto(g, "gcRelease")
       \/ /\ Fault /\ (MoveTree \/ UNCHANGED <<tree, lock, carried>>)
          /\ Goto(g, "off") \/ Goto(g, "gcRelease")
    /\ UNCHANGED <<claim, goal, starts>>

GcRelease(g) == At(g, "gcRelease") /\ DropsClaim(g, "off")

Collect(g) == GcLook(g) \/ GcClaim(g) \/ GcOwner(g) \/ GcLookAgain(g) \/ GcOwned(g) \/ GcMove(g) \/ GcRelease(g)

-----------------------------------------------------------------------------
(* Clients come and go, and time passes *)

Start(c) ==
    /\ pc[c] \in {"off", "up"} /\ starts[c] < MaxStarts[c]
    /\ starts' = [starts EXCEPT ![c] = @ + 1]
    /\ Goto(c, IF c \in Deployers THEN "start" ELSE "gcLock")
    /\ UNCHANGED <<host, goal, faults, carried>>

Stop(c) == pc[c] \notin {"off", "up"} /\ Fault /\ Goto(c, "off") /\ UNCHANGED <<host, Other>>

Disconnect(c) == At(c, "up") /\ NoFault /\ Goto(c, "off") /\ UNCHANGED <<host, Other>>

(* The daemon idles out once nobody is connected to it. *)
DaemonExits ==
    /\ tree.alive
    /\ \A c \in Deployers : pc[c] \notin {"release", "releaseFence", "up"}
    /\ tree' = [tree EXCEPT !.alive = FALSE]
    /\ UNCHANGED <<lock, claim, pc, Other, faults>>

LockPlaces ==
    {"recheck", "backOff", "hold", "upload", "finalize", "abandon", "repairRecheck", "repairYield",
     "repairUnsure", "repairInstalled", "repairing", "launch", "launchUnowned", "release"}

ClaimPlaces ==
    {"recoverOwner", "recoverRelease", "fenceOwner", "fenceInstalled", "fenceYield", "fenceFail",
     "launchFenced", "releaseFence", "gcOwner", "gcLockAgain", "gcCompleteAgain", "gcSocketAgain",
     "gcOwned", "gcMove", "gcRelease"}

(* Twenty minutes are more than a deploy may take. *)
LockGoesStale ==
    /\ lock # NoLock /\ ~lock.stale /\ pc[lock.owner] \notin LockPlaces
    /\ lock' = [lock EXCEPT !.stale = TRUE]
    /\ UNCHANGED <<tree, claim, pc, Other, faults>>

(* Ten minutes are more than a launch, a recovery or a move takes. *)
ClaimGoesStale ==
    /\ claim # NoClaim /\ ~claim.stale /\ pc[claim.owner] \notin ClaimPlaces
    /\ claim' = [claim EXCEPT !.stale = TRUE]
    /\ UNCHANGED <<tree, lock, pc, Other, faults>>

-----------------------------------------------------------------------------
(* Nothing is there yet, or an install that nobody runs. *)
Init ==
    /\ tree \in {NoTree, [there |-> TRUE, complete |-> TRUE, alive |-> FALSE]}
    /\ lock = NoLock
    /\ claim = NoClaim
    /\ pc = [c \in Clients |-> "off"]
    /\ goal = [c \in Clients |-> "install"]
    /\ starts = [c \in Clients |-> 0]
    /\ faults = 0
    /\ carried = FALSE

Next ==
    \/ \E c \in Deployers : Deploy(c) \/ Steal(c) \/ GiveUp(c) \/ Disconnect(c)
    \/ \E g \in Collectors : Collect(g)
    \/ \E c \in Clients : Start(c) \/ Stop(c)
    \/ DaemonExits \/ LockGoesStale \/ ClaimGoesStale

Spec == Init /\ [][Next]_vars

(* Commands return (execCommand has a timeout), the age of a lock is looked at *)
(* again and again, and time passes.                                           *)
Fairness ==
    /\ \A c \in Deployers : WF_vars(Deploy(c)) /\ SF_vars(Steal(c))
    /\ \A g \in Collectors : WF_vars(Collect(g))
    /\ WF_vars(LockGoesStale) /\ WF_vars(ClaimGoesStale)

FairSpec == Spec /\ Fairness

-----------------------------------------------------------------------------
(* Properties *)

DeployerPlaces ==
    {"start", "conflict", "wait", "recover", "recoverOwner", "recoverRelease", "mkdir", "create", "steal",
     "recheck", "backOff", "hold", "upload", "finalize", "abandon", "repair", "repairMkdir", "repairCreate",
     "repairSteal", "classify", "repairRecheck", "repairYield", "repairUnsure", "repairInstalled",
     "repairing", "fence", "fenceSteal", "fenceOwner", "fenceInstalled", "fenceYield", "fenceFail",
     "launch", "launchUnowned", "launchFenced", "release", "releaseFence", "up"}

CollectorPlaces ==
    {"gcLock", "gcComplete", "gcSocket", "gcClaim", "gcSteal", "gcOwner", "gcLockAgain", "gcCompleteAgain",
     "gcSocketAgain", "gcOwned", "gcMove", "gcRelease"}

TreeOK ==
    /\ tree \in [there : BOOLEAN, complete : BOOLEAN, alive : BOOLEAN]
    /\ tree.alive => tree.complete
    /\ tree.complete => tree.there

LockOK ==
    /\ lock = NoLock \/ lock \in [owner : Deployers, stale : BOOLEAN]
    /\ lock # NoLock => tree.there

ClaimOK ==
    claim = NoClaim \/ claim \in [owner : Clients, token : Clients \cup {None}, stale : BOOLEAN]

ClientsOK ==
    /\ pc \in [Clients -> DeployerPlaces \cup CollectorPlaces \cup {"off"}]
    /\ \A c \in Deployers : pc[c] \notin CollectorPlaces
    /\ \A g \in Collectors : pc[g] \notin DeployerPlaces
    /\ goal \in [Clients -> {"install", "restart"}]
    /\ starts \in [Clients -> Nat]
    /\ faults \in Nat
    /\ carried \in BOOLEAN

(* The host and the clients keep their types: a socket is in a complete      *)
(* directory, and a sentinel or a lock in a directory that is there.         *)
TypeOK == TreeOK /\ LockOK /\ ClaimOK /\ ClientsOK

Writes(c) == pc[c] \in {"upload", "finalize", "repairing"}

Launches(c) == pc[c] \in {"launch", "launchUnowned", "launchFenced"}

OneInstaller == \A c, d \in Deployers : Writes(c) /\ Writes(d) => c = d

(* Two deployers never write the directory at once (an npm install over an   *)
(* upload), whatever fails, goes stale, is stolen or backed out of, unless a *)
(* collector carried a lock away that was created after it looked: only then *)
(* does a client go on under a lock that is gone.                            *)
ExclusionUnlessCarried == carried \/ OneInstaller

(* A deployer launches only from a directory that is installed, and only     *)
(* behind a lock or a claim of its own, so that no collector moves the       *)
(* directory before its daemon can be seen; with the same exception.         *)
LaunchIsFenced ==
    \A c \in Deployers : Launches(c) => carried \/ (Installed /\ (lock.owner = c \/ claim.token = c))

(* A collector moves no directory that someone writes or launches from, and  *)
(* none with a live daemon; unless a lock was carried away before.           *)
MoveIsSafe ==
    [][tree.there /\ ~tree'.there =>
          carried \/ (~tree.alive /\ \A c \in Deployers : ~Writes(c) /\ ~Launches(c))]_vars

(* Every deploy ends: a lock or claim that a client left behind when it      *)
(* stopped, or whose removal failed, is recovered by those that wait for it. *)
DeployEnds == \A c \in Deployers : At(c, "start") ~> pc[c] \in {"off", "up"}
=============================================================================
