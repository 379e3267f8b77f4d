----------------------------- MODULE PsciProofs -----------------------------
(***************************************************************************)
(* Proofs about virtual CPU power control, for every number of CPUs, every *)
(* memory layout and every set of CPU_ON arguments.                        *)
(***************************************************************************)
EXTENDS Psci, TLAPS

\* A step of CPU c.
ThreadStep(c) == GuestStep(c) \/ Lock(c) \/ RequestStep(c) \/ WakeStep(c)

\* The phases a step of psci.rs, vcpu.rs or entry.S may go to are phases.
LEMMA PhaseMembers ==
    /\ \A p \in {"absent", "secondary", "initialize", "guest", "off", "parked", "lock", "signal",
                 "load_state", "store_claimed", "unlock", "store_launch", "check_started", "boot",
                 "mark_started", "withdraw", "publish", "dispatch", "wait", "take"} : p \in Phases
BY DEF Phases, Requesting, Claiming, Owning, Waking

\* Cutting an SMC32 argument to 32 bits (psci.rs `argument`) gives a natural number.
LEMMA ArgumentIsNat ==
    ASSUME NEW function, NEW x \in Nat
    PROVE  argument(function, x) \in Nat
BY PsciAssumption DEF argument

\* The entry and the context of a CPU_ON call make a launch.
LEMMA RequestIsLaunch ==
    ASSUME NEW function, NEW x \in Calls
    PROVE  RequestOf(function, x) \in AnyLaunch
BY ArgumentIsNat, PsciAssumption DEF RequestOf, AnyLaunch, Fields

\* A mailbox of zeros (Cpu::new) is a launch.
LEMMA ZeroIsLaunch == ZeroLaunch \in AnyLaunch
BY DEF ZeroLaunch, AnyLaunch

\* Every step of a CPU keeps the types.  Only the load of a field of the mailbox needs more than
\* types: `taken` must already be a launch.
LEMMA StepType ==
    ASSUME PsciTypeOK, LaunchIsWhole, NEW c \in CPUs, ThreadStep(c)
    PROVE  PsciTypeOK'
<1> USE PhaseMembers DEF PsciTypeOK, MutexTypeOK, Goto, States, Statuses
<1>1. ASSUME NEW function \in {"CPU_ON32", "CPU_ON64"}, NEW x \in Calls, CpuOn(c, function, x)
      PROVE  PsciTypeOK'
  <2>1. argument(function, x.x1) \in CPUs
    BY <1>1, ArgumentIsNat, PsciAssumption DEF CpuOn, cpu_id
  <2> QED BY <1>1, <2>1, RequestIsLaunch DEF CpuOn
<1>2. CASE PowerOff(c)
  BY <1>2 DEF PowerOff
<1>3. CASE Lock(c)
  BY <1>3 DEF Lock, Acquire
<1>4. CASE LoadState(c)
  BY <1>4 DEF LoadState
<1>5. CASE StoreClaimed(c)
  BY <1>5 DEF StoreClaimed
<1>6. CASE Unlock(c)
  BY <1>6 DEF Unlock, Release
<1>7. ASSUME NEW f \in Fields, StoreField(c, f) PROVE PsciTypeOK'
  <2>1. mailbox' \in [CPUs -> AnyLaunch]
    BY <1>7 DEF StoreField, AnyLaunch
  <2> QED BY <1>7, <2>1 DEF StoreField
<1>8. CASE CheckStarted(c)
  BY <1>8 DEF CheckStarted
<1>9. CASE FirmwareCpuOn(c)
  BY <1>9 DEF FirmwareCpuOn
<1>10. CASE FirmwareError(c)
  BY <1>10 DEF FirmwareError
<1>11. CASE Withdraw(c)
  BY <1>11 DEF Withdraw
<1>12. CASE MarkStarted(c)
  BY <1>12 DEF MarkStarted
<1>13. CASE Publish(c)
  BY <1>13 DEF Publish
<1>14. CASE Signal(c)
  BY <1>14, ZeroIsLaunch DEF Signal, Sev
<1>15. CASE ParkVcpu(c)
  BY <1>15 DEF ParkVcpu, Sev
<1>16. CASE SecondaryEntry(c)
  BY <1>16 DEF SecondaryEntry
<1>17. CASE Dispatch(c)
  BY <1>17, ZeroIsLaunch DEF Dispatch
<1>18. CASE Wfe(c)
  BY <1>18 DEF Wfe
<1>19. ASSUME NEW f \in Fields, LoadField(c, f) PROVE PsciTypeOK'
  <2>1. taken[c] \in AnyLaunch
    BY <1>19 DEF LoadField, LaunchIsWhole
  <2> QED BY <1>19, <2>1 DEF LoadField, AnyLaunch
<1>20. CASE StoreOn(c)
  BY <1>20 DEF StoreOn
<1>21. CASE EnterPayload(c)
  BY <1>21 DEF EnterPayload
<1> QED BY <1>1, <1>2, <1>3, <1>4, <1>5, <1>6, <1>7, <1>8, <1>9, <1>10, <1>11, <1>12, <1>13,
           <1>14, <1>15, <1>16, <1>17, <1>18, <1>19, <1>20, <1>21
        DEF ThreadStep, GuestStep, RequestStep, WakeStep
\* Every step keeps the claim under the lock: nobody else changes the state of a CPU that the holder
\* has found OFF (Machine::request).
LEMMA StepClaim ==
    ASSUME PsciTypeOK, ClaimIsLocked, OneOwner, GuestRunsOnlyWhenOn, NEW c \in CPUs, ThreadStep(c)
    PROVE  ClaimIsLocked'
<1> USE DEF PsciTypeOK, MutexTypeOK, Goto, Requesting, Claiming, Owning, Owns, affinity,
            ClaimIsLocked, OneOwner, GuestRunsOnlyWhenOn
<1>1. ASSUME NEW function \in {"CPU_ON32", "CPU_ON64"}, NEW x \in Calls, CpuOn(c, function, x)
      PROVE  ClaimIsLocked'
  BY <1>1 DEF CpuOn
<1>2. CASE PowerOff(c)
  BY <1>2 DEF PowerOff
<1>3. CASE Lock(c)
  BY <1>3, NoCPUAssumption DEF Lock, Acquire
<1>4. CASE LoadState(c)
  BY <1>4 DEF LoadState
<1>5. CASE StoreClaimed(c)
  BY <1>5 DEF StoreClaimed
<1>6. CASE Unlock(c)
  <2>1. /\ holder = c
        /\ holder' = NoCPU
        /\ pc'[c] \in {"store_launch", "signal"}
        /\ \A d \in CPUs \ {c} : pc'[d] = pc[d]
    BY <1>6 DEF Unlock, Release
  <2>2. pc'[c] = "store_launch" => status[c] = "none"
    BY <1>6 DEF Unlock
  <2> QED BY <1>6, <2>1, <2>2, NoCPUAssumption DEF Unlock
<1>7. ASSUME NEW f \in Fields, StoreField(c, f) PROVE ClaimIsLocked'
  BY <1>7 DEF StoreField
<1>8. CASE CheckStarted(c)
  BY <1>8 DEF CheckStarted
<1>9. CASE FirmwareCpuOn(c)
  BY <1>9 DEF FirmwareCpuOn
<1>10. CASE FirmwareError(c)
  BY <1>10 DEF FirmwareError
<1>11. CASE Withdraw(c)
  BY <1>11 DEF Withdraw
<1>12. CASE MarkStarted(c)
  BY <1>12 DEF MarkStarted
<1>13. CASE Publish(c)
  BY <1>13 DEF Publish
<1>14. CASE Signal(c)
  BY <1>14 DEF Signal, Sev
<1>15. CASE ParkVcpu(c)
  BY <1>15 DEF ParkVcpu, Sev
<1>16. CASE SecondaryEntry(c)
  BY <1>16 DEF SecondaryEntry
<1>17. CASE Dispatch(c)
  BY <1>17 DEF Dispatch
<1>18. CASE Wfe(c)
  BY <1>18 DEF Wfe
<1>19. ASSUME NEW f \in Fields, LoadField(c, f) PROVE ClaimIsLocked'
  BY <1>19 DEF LoadField
<1>20. CASE StoreOn(c)
  BY <1>20 DEF StoreOn
<1>21. CASE EnterPayload(c)
  BY <1>21 DEF EnterPayload
<1> QED BY <1>1, <1>2, <1>3, <1>4, <1>5, <1>6, <1>7, <1>8, <1>9, <1>10, <1>11, <1>12, <1>13,
           <1>14, <1>15, <1>16, <1>17, <1>18, <1>19, <1>20, <1>21
        DEF ThreadStep, GuestStep, RequestStep, WakeStep

\* A step that moves no owner and no claim keeps the owners.
LEMMA OwnersKept ==
    ASSUME PsciTypeOK, OneOwner,
           \A d \in CPUs : (Owns(d)' <=> Owns(d)) /\ (Owns(d) => target'[d] = target[d]),
           \A t \in CPUs : state'[t] = "CLAIMED" <=> state[t] = "CLAIMED"
    PROVE  OneOwner'
<1>1. \A d \in CPUs : Owns(d) => target[d] \in CPUs
  BY DEF PsciTypeOK
<1> QED BY <1>1 DEF OneOwner

\* The owner gives up its claim.
LEMMA OwnerResigns ==
    ASSUME PsciTypeOK, OneOwner, NEW c \in CPUs, Owns(c), ~Owns(c)',
           \A d \in CPUs \ {c} : Owns(d)' <=> Owns(d),
           target' = target,
           state'[target[c]] # "CLAIMED",
           \A t \in CPUs \ {target[c]} : state'[t] = state[t]
    PROVE  OneOwner'
<1>1. \A d \in CPUs : target[d] \in CPUs
  BY DEF PsciTypeOK
<1>2. \A d \in CPUs \ {c} : Owns(d) => target[d] # target[c]
  BY DEF OneOwner
<1> QED BY <1>1, <1>2 DEF OneOwner

\* Every step keeps one owner per claimed CPU: only StoreClaimed makes one, only Withdraw and
\* Publish end one (Machine::request).
LEMMA StepOwner ==
    ASSUME PsciTypeOK, ClaimIsLocked, OneOwner, StartedIsPowered, GuestRunsOnlyWhenOn,
           NEW c \in CPUs, ThreadStep(c)
    PROVE  OneOwner'
<1> DEFINE Kept == /\ \A d \in CPUs : (Owns(d)' <=> Owns(d)) /\ (Owns(d) => target'[d] = target[d])
                   /\ \A t \in CPUs : state'[t] = "CLAIMED" <=> state[t] = "CLAIMED"
<1> USE DEF PsciTypeOK, Goto, Claiming, Owning, Owns
<1>1. ASSUME NEW function \in {"CPU_ON32", "CPU_ON64"}, NEW x \in Calls, CpuOn(c, function, x)
      PROVE  Kept
  BY <1>1 DEF CpuOn
<1>2. ASSUME PowerOff(c) PROVE Kept
  BY <1>2 DEF PowerOff, GuestRunsOnlyWhenOn, affinity, Requesting
<1>3. ASSUME Lock(c) PROVE Kept
  BY <1>3 DEF Lock, Acquire
<1>4. ASSUME LoadState(c) PROVE Kept
  BY <1>4 DEF LoadState, ClaimIsLocked
<1>5. ASSUME StoreClaimed(c) PROVE OneOwner'
  <2>1. state[target[c]] = "OFF" /\ status[c] = "none"
    BY <1>5 DEF StoreClaimed, ClaimIsLocked
  <2>2. /\ Owns(c)' /\ ~Owns(c)
        /\ target' = target
        /\ state'[target[c]] = "CLAIMED"
    BY <1>5, <2>1 DEF StoreClaimed
  <2>3. \A d \in CPUs \ {c} : Owns(d)' <=> Owns(d)
    BY <1>5 DEF StoreClaimed
  <2>4. \A t \in CPUs \ {target[c]} : state'[t] = state[t]
    BY <1>5 DEF StoreClaimed
  <2> HIDE DEF Owns
  <2>5. \A d \in CPUs : Owns(d) => target[d] # target[c]
    BY <2>1 DEF OneOwner
  <2>6. ASSUME NEW t \in CPUs, state'[t] = "CLAIMED"
        PROVE  \E d \in CPUs : Owns(d)' /\ target[d] = t
    <3>1. CASE t = target[c]
      BY <2>2, <3>1
    <3>2. CASE t # target[c]
      <4>1. PICK d \in CPUs : Owns(d) /\ target[d] = t
        BY <2>4, <2>6, <3>2 DEF OneOwner
      <4> QED BY <2>2, <2>3, <4>1
    <3> QED BY <3>1, <3>2
  <2>7. \A d \in CPUs : Owns(d)' => state'[target[d]] = "CLAIMED"
    BY <2>2, <2>3, <2>4 DEF OneOwner
  <2>8. \A d, e \in CPUs : Owns(d)' /\ Owns(e)' /\ target[d] = target[e] => d = e
    BY <2>2, <2>3, <2>5 DEF OneOwner
  <2> QED BY <2>2, <2>6, <2>7, <2>8 DEF OneOwner
<1>6. ASSUME Unlock(c) PROVE Kept
  BY <1>6 DEF Unlock, Release
<1>7. ASSUME NEW f \in Fields, StoreField(c, f) PROVE Kept
  BY <1>7 DEF StoreField
<1>8. ASSUME CheckStarted(c) PROVE Kept
  BY <1>8 DEF CheckStarted
<1>9. ASSUME FirmwareCpuOn(c) PROVE Kept
  BY <1>9 DEF FirmwareCpuOn, StartedIsPowered
<1>10. ASSUME FirmwareError(c) PROVE Kept
  BY <1>10 DEF FirmwareError
<1>11. ASSUME Withdraw(c) PROVE OneOwner'
  <2>1. /\ Owns(c) /\ ~Owns(c)'
        /\ \A d \in CPUs \ {c} : Owns(d)' <=> Owns(d)
        /\ target' = target
        /\ state'[target[c]] # "CLAIMED"
        /\ \A t \in CPUs \ {target[c]} : state'[t] = state[t]
    BY <1>11 DEF Withdraw
  <2> QED BY <2>1, OwnerResigns
<1>12. ASSUME MarkStarted(c) PROVE Kept
  BY <1>12 DEF MarkStarted
<1>13. ASSUME Publish(c) PROVE OneOwner'
  <2>1. /\ Owns(c) /\ ~Owns(c)'
        /\ \A d \in CPUs \ {c} : Owns(d)' <=> Owns(d)
        /\ target' = target
        /\ state'[target[c]] # "CLAIMED"
        /\ \A t \in CPUs \ {target[c]} : state'[t] = state[t]
    BY <1>13 DEF Publish
  <2> QED BY <2>1, OwnerResigns
<1>14. ASSUME Signal(c) PROVE Kept
  BY <1>14 DEF Signal, Sev
<1>15. ASSUME ParkVcpu(c) PROVE Kept
  BY <1>15 DEF ParkVcpu, Sev
<1>16. ASSUME SecondaryEntry(c) PROVE Kept
  BY <1>16 DEF SecondaryEntry
<1>17. ASSUME Dispatch(c) PROVE Kept
  BY <1>17 DEF Dispatch
<1>18. ASSUME Wfe(c) PROVE Kept
  BY <1>18 DEF Wfe
<1>19. ASSUME NEW f \in Fields, LoadField(c, f) PROVE Kept
  BY <1>19 DEF LoadField
<1>20. ASSUME StoreOn(c) PROVE Kept
  BY <1>20 DEF StoreOn, GuestRunsOnlyWhenOn, affinity
<1>21. ASSUME EnterPayload(c) PROVE Kept
  BY <1>21 DEF EnterPayload
<1> HIDE DEF Owns
<1>22. Kept => OneOwner'
  BY OwnersKept
<1> QED BY <1>1, <1>2, <1>3, <1>4, <1>5, <1>6, <1>7, <1>8, <1>9, <1>10, <1>11, <1>12, <1>13,
           <1>14, <1>15, <1>16, <1>17, <1>18, <1>19, <1>20, <1>21, <1>22
        DEF ThreadStep, GuestStep, RequestStep, WakeStep

\* Every step keeps what the flags say of physical CPUs: the owner alone boots and marks its target
\* (psci.rs:198-205).
LEMMA StepStarted ==
    ASSUME PsciTypeOK, OneOwner, GuestRunsOnlyWhenOn, StartedIsPowered, NEW c \in CPUs, ThreadStep(c)
    PROVE  StartedIsPowered'
<1> USE DEF PsciTypeOK, Goto, Requesting, Claiming, Owning, OneOwner, StartedIsPowered, Owns
<1>1. ASSUME NEW function \in {"CPU_ON32", "CPU_ON64"}, NEW x \in Calls, CpuOn(c, function, x)
      PROVE  StartedIsPowered'
  <2>1. /\ pc[c] = "guest"
        /\ pc'[c] \in {"lock", "signal"}
        /\ \A d \in CPUs \ {c} : pc'[d] = pc[d] /\ target'[d] = target[d]
        /\ UNCHANGED <<powered, physical_started, state>>
    BY <1>1 DEF CpuOn
  <2>2. ASSUME NEW t \in CPUs, powered[t], ~physical_started[t]
        PROVE  \E d \in CPUs : pc'[d] = "mark_started" /\ target'[d] = t
    <3>1. PICK d \in CPUs : pc[d] = "mark_started" /\ target[d] = t
      BY <2>2
    <3> QED BY <2>1, <3>1
  <2> QED BY <2>1, <2>2
<1>2. CASE PowerOff(c)
  BY <1>2 DEF PowerOff
<1>3. CASE Lock(c)
  BY <1>3 DEF Lock, Acquire
<1>4. CASE LoadState(c)
  BY <1>4 DEF LoadState
<1>5. CASE StoreClaimed(c)
  BY <1>5 DEF StoreClaimed
<1>6. CASE Unlock(c)
  BY <1>6 DEF Unlock, Release
<1>7. ASSUME NEW f \in Fields, StoreField(c, f) PROVE StartedIsPowered'
  BY <1>7 DEF StoreField
<1>8. CASE CheckStarted(c)
  BY <1>8 DEF CheckStarted
<1>9. CASE FirmwareCpuOn(c)
  BY <1>9 DEF FirmwareCpuOn
<1>10. CASE FirmwareError(c)
  BY <1>10 DEF FirmwareError
<1>11. CASE Withdraw(c)
  BY <1>11 DEF Withdraw
<1>12. CASE MarkStarted(c)
  <2>1. \A d \in CPUs \ {c} : Owns(d) => target[d] # target[c]
    BY <1>12 DEF MarkStarted
  <2>2. \A d \in CPUs \ {c} : pc'[d] = pc[d]
    BY <1>12 DEF MarkStarted
  <2>3. powered[target[c]] /\ pc'[c] = "publish" /\ pc[c] = "mark_started"
    BY <1>12 DEF MarkStarted
  <2>4. \A t \in CPUs : physical_started'[t] <=> physical_started[t] \/ t = target[c]
    BY <1>12 DEF MarkStarted
  <2>5. UNCHANGED <<powered, target, state>>
    BY <1>12 DEF MarkStarted
  <2> QED BY <2>1, <2>2, <2>3, <2>4, <2>5
<1>13. CASE Publish(c)
  BY <1>13 DEF Publish
<1>14. CASE Signal(c)
  BY <1>14 DEF Signal, Sev
<1>15. CASE ParkVcpu(c)
  BY <1>15 DEF ParkVcpu, Sev
<1>16. CASE SecondaryEntry(c)
  BY <1>16 DEF SecondaryEntry
<1>17. CASE Dispatch(c)
  BY <1>17 DEF Dispatch
<1>18. CASE Wfe(c)
  BY <1>18 DEF Wfe
<1>19. ASSUME NEW f \in Fields, LoadField(c, f) PROVE StartedIsPowered'
  BY <1>19 DEF LoadField
<1>20. CASE StoreOn(c)
  <2>1. state[c] = "PENDING"
    BY <1>20 DEF StoreOn, GuestRunsOnlyWhenOn, affinity
  <2> QED BY <1>20, <2>1 DEF StoreOn
<1>21. CASE EnterPayload(c)
  BY <1>21 DEF EnterPayload
<1> QED BY <1>1, <1>2, <1>3, <1>4, <1>5, <1>6, <1>7, <1>8, <1>9, <1>10, <1>11, <1>12, <1>13,
           <1>14, <1>15, <1>16, <1>17, <1>18, <1>19, <1>20, <1>21
        DEF ThreadStep, GuestStep, RequestStep, WakeStep

\* Every step keeps guests to CPUs that are ON: a claim, a publication and a withdrawal only touch
\* CPUs that run no guest (take_launch, power_off).
LEMMA StepRuns ==
    ASSUME PsciTypeOK, ClaimIsLocked, OneOwner, StartedIsPowered, GuestRunsOnlyWhenOn, NEW c \in CPUs, ThreadStep(c)
    PROVE  GuestRunsOnlyWhenOn'
<1> USE DEF PsciTypeOK, Goto, Requesting, Claiming, Owning, Owns, affinity,
            ClaimIsLocked, OneOwner, StartedIsPowered, GuestRunsOnlyWhenOn
<1>1. ASSUME NEW function \in {"CPU_ON32", "CPU_ON64"}, NEW x \in Calls, CpuOn(c, function, x)
      PROVE  GuestRunsOnlyWhenOn'
  BY <1>1 DEF CpuOn
<1>2. CASE PowerOff(c)
  BY <1>2 DEF PowerOff
<1>3. CASE Lock(c)
  BY <1>3 DEF Lock, Acquire
<1>4. CASE LoadState(c)
  BY <1>4 DEF LoadState
<1>5. CASE StoreClaimed(c)
  BY <1>5 DEF StoreClaimed
<1>6. CASE Unlock(c)
  BY <1>6 DEF Unlock, Release
<1>7. ASSUME NEW f \in Fields, StoreField(c, f) PROVE GuestRunsOnlyWhenOn'
  BY <1>7 DEF StoreField
<1>8. CASE CheckStarted(c)
  BY <1>8 DEF CheckStarted
<1>9. CASE FirmwareCpuOn(c)
  BY <1>9 DEF FirmwareCpuOn
<1>10. CASE FirmwareError(c)
  BY <1>10 DEF FirmwareError
<1>11. CASE Withdraw(c)
  BY <1>11 DEF Withdraw
<1>12. CASE MarkStarted(c)
  BY <1>12 DEF MarkStarted
<1>13. CASE Publish(c)
  BY <1>13 DEF Publish
<1>14. CASE Signal(c)
  BY <1>14 DEF Signal, Sev
<1>15. CASE ParkVcpu(c)
  BY <1>15 DEF ParkVcpu, Sev
<1>16. CASE SecondaryEntry(c)
  BY <1>16 DEF SecondaryEntry
<1>17. CASE Dispatch(c)
  BY <1>17 DEF Dispatch
<1>18. CASE Wfe(c)
  BY <1>18 DEF Wfe
<1>19. ASSUME NEW f \in Fields, LoadField(c, f) PROVE GuestRunsOnlyWhenOn'
  BY <1>19 DEF LoadField
<1>20. CASE StoreOn(c)
  BY <1>20 DEF StoreOn
<1>21. CASE EnterPayload(c)
  BY <1>21 DEF EnterPayload
<1> QED BY <1>1, <1>2, <1>3, <1>4, <1>5, <1>6, <1>7, <1>8, <1>9, <1>10, <1>11, <1>12, <1>13,
           <1>14, <1>15, <1>16, <1>17, <1>18, <1>19, <1>20, <1>21
        DEF ThreadStep, GuestStep, RequestStep, WakeStep

\* Every step keeps launches whole: the owner alone stores into its target's mailbox, and not while
\* the target loads from it.
LEMMA StepWhole ==
    ASSUME PsciTypeOK, OneOwner, GuestRunsOnlyWhenOn, LaunchIsWhole, NEW c \in CPUs, ThreadStep(c)
    PROVE  LaunchIsWhole'
<1> USE DEF PsciTypeOK, Goto, Requesting, Claiming, Owning, OneOwner, LaunchIsWhole, GuestRunsOnlyWhenOn, Owns, affinity
<1>1. ASSUME NEW function \in {"CPU_ON32", "CPU_ON64"}, NEW x \in Calls, CpuOn(c, function, x)
      PROVE  LaunchIsWhole'
  <2>1. pc'[c] # "signal" => RequestOf(function, x) \in GuestLaunches
    BY <1>1 DEF CpuOn, GuestLaunches
  <2> HIDE DEF GuestLaunches
  <2> QED BY <1>1, <2>1 DEF CpuOn
<1>2. CASE PowerOff(c)
  BY <1>2 DEF PowerOff
<1>3. CASE Lock(c)
  BY <1>3 DEF Lock, Acquire
<1>4. CASE LoadState(c)
  BY <1>4 DEF LoadState
<1>5. CASE StoreClaimed(c)
  BY <1>5 DEF StoreClaimed
<1>6. CASE Unlock(c)
  BY <1>6 DEF Unlock, Release
<1>7. ASSUME NEW f \in Fields, StoreField(c, f) PROVE LaunchIsWhole'
  <2>1. \A d \in CPUs \ {c} : Owns(d) => target[d] # target[c]
    BY <1>7 DEF StoreField
  <2>2. state[target[c]] = "CLAIMED"
    BY <1>7 DEF StoreField
  <2>3. \A d \in CPUs \ {c} : /\ pc'[d] = pc[d]
                              /\ todo'[d] = todo[d]
    BY <1>7 DEF StoreField
  <2>4. \A t \in CPUs \ {target[c]} : mailbox'[t] = mailbox[t]
    BY <1>7 DEF StoreField
  <2>5. UNCHANGED <<target, launch, taken>>
    BY <1>7 DEF StoreField
  <2>6. /\ mailbox'[target[c]][f] = launch[c][f]
        /\ \A g \in Fields \ {f} : mailbox'[target[c]][g] = mailbox[target[c]][g]
        /\ mailbox'[target[c]] \in AnyLaunch
        /\ todo'[c] = todo[c] \ {f}
        /\ pc[c] = "store_launch"
        /\ pc'[c] = IF todo[c] = {f} THEN "check_started" ELSE "store_launch"
    BY <1>7 DEF StoreField, AnyLaunch
  <2>7. \A g \in Fields \ todo'[c] : mailbox'[target[c]][g] = launch[c][g]
    BY <2>6
  <2>8. pc'[c] = "check_started" => mailbox'[target[c]] = launch[c]
    <3>1. launch[c] \in AnyLaunch
      OBVIOUS
    <3>2. pc'[c] = "check_started" => \A g \in Fields : mailbox'[target[c]][g] = launch[c][g]
      BY <2>6, <2>7
    <3> QED BY <2>6, <3>1, <3>2 DEF AnyLaunch
  <2> QED BY <2>1, <2>2, <2>3, <2>4, <2>5, <2>6, <2>7, <2>8
<1>8. CASE CheckStarted(c)
  BY <1>8 DEF CheckStarted
<1>9. CASE FirmwareCpuOn(c)
  BY <1>9 DEF FirmwareCpuOn
<1>10. CASE FirmwareError(c)
  BY <1>10 DEF FirmwareError
<1>11. CASE Withdraw(c)
  BY <1>11 DEF Withdraw
<1>12. CASE MarkStarted(c)
  BY <1>12 DEF MarkStarted
<1>13. CASE Publish(c)
  BY <1>13 DEF Publish
<1>14. CASE Signal(c)
  BY <1>14 DEF Signal, Sev
<1>15. CASE ParkVcpu(c)
  BY <1>15 DEF ParkVcpu, Sev
<1>16. CASE SecondaryEntry(c)
  BY <1>16 DEF SecondaryEntry
<1>17. CASE Dispatch(c)
  BY <1>17, ZeroIsLaunch DEF Dispatch
<1>18. CASE Wfe(c)
  BY <1>18 DEF Wfe
<1>19. ASSUME NEW f \in Fields, LoadField(c, f) PROVE LaunchIsWhole'
  <2>1. /\ taken'[c] \in AnyLaunch
        /\ \A g \in Fields \ todo'[c] : taken'[c][g] = mailbox[c][g]
    BY <1>19 DEF LoadField, AnyLaunch
  <2> QED BY <1>19, <2>1 DEF LoadField
<1>20. CASE StoreOn(c)
  BY <1>20 DEF StoreOn
<1>21. CASE EnterPayload(c)
  BY <1>21 DEF EnterPayload
<1> QED BY <1>1, <1>2, <1>3, <1>4, <1>5, <1>6, <1>7, <1>8, <1>9, <1>10, <1>11, <1>12, <1>13,
           <1>14, <1>15, <1>16, <1>17, <1>18, <1>19, <1>20, <1>21
        DEF ThreadStep, GuestStep, RequestStep, WakeStep

\* The machine starts in a state of the invariant (Machine::new).
LEMMA InitPowerInvariant == PsciInit => PowerInvariant
<1> SUFFICES ASSUME PsciInit PROVE PowerInvariant
  OBVIOUS
<1> USE DEF PsciInit
<1>1. 0 \in CPUs
  BY PsciAssumption
<1>2. PsciTypeOK
  BY <1>1, PhaseMembers, ZeroIsLaunch DEF PsciTypeOK, MutexTypeOK, MutexInit, States, Statuses
<1>3. ClaimIsLocked
  BY NoCPUAssumption DEF ClaimIsLocked, Claiming, MutexInit
<1>4. OneOwner
  BY DEF OneOwner, Owns, Owning
<1>5. StartedIsPowered
  BY DEF StartedIsPowered
<1>6. GuestRunsOnlyWhenOn
  BY DEF GuestRunsOnlyWhenOn, affinity, Requesting, Claiming, Owning
<1>7. LaunchIsWhole
  BY DEF LaunchIsWhole, Requesting, Claiming, Owning
<1> QED BY <1>2, <1>3, <1>4, <1>5, <1>6, <1>7 DEF PowerInvariant

\* The invariant is inductive over all steps of all CPUs.
LEMMA StepPowerInvariant == PowerInvariant /\ [PsciNext]_psciVars => PowerInvariant'
<1> SUFFICES ASSUME PowerInvariant, [PsciNext]_psciVars PROVE PowerInvariant'
  OBVIOUS
<1>1. ASSUME NEW c \in CPUs, ThreadStep(c) PROVE PowerInvariant'
  BY <1>1, StepType, StepClaim, StepOwner, StepStarted, StepRuns, StepWhole DEF PowerInvariant
<1>2. CASE UNCHANGED psciVars
  BY <1>2 DEF psciVars, PowerInvariant, PsciTypeOK, MutexTypeOK, ClaimIsLocked, OneOwner, Owns,
              StartedIsPowered, GuestRunsOnlyWhenOn, affinity, LaunchIsWhole
<1> QED BY <1>1, <1>2 DEF PsciNext, ThreadStep

(***************************************************************************)
(* THE POWER INVARIANT.  On every number of CPUs: claims are made under    *)
(* the lock, a claimed CPU has exactly one owner, guests run only on CPUs  *)
(* that are ON, and launches are whole (psci.rs Machine::request,          *)
(* take_launch, power_off; vcpu.rs; entry.S).                              *)
(***************************************************************************)
THEOREM PowerInvariantHolds == PsciSpec => []PowerInvariant
BY InitPowerInvariant, StepPowerInvariant, PTL DEF PsciSpec

\* In a state of the invariant a caller that is about to boot its target is the only one that could
\* have booted it, and has not.
LEMMA InvariantBootsOnce == PowerInvariant => NoSecondBoot
<1> SUFFICES ASSUME PowerInvariant, NEW c \in CPUs, pc[c] = "boot", powered[target[c]]
             PROVE  FALSE
  BY DEF NoSecondBoot
<1>1. target[c] \in CPUs /\ ~physical_started[target[c]]
  BY DEF PowerInvariant, PsciTypeOK, StartedIsPowered
<1>2. PICK d \in CPUs : pc[d] = "mark_started" /\ target[d] = target[c]
  BY <1>1 DEF PowerInvariant, StartedIsPowered
<1>3. Owns(c) /\ Owns(d)
  BY <1>2 DEF Owns, Owning
<1> QED BY <1>2, <1>3 DEF PowerInvariant, OneOwner

(***************************************************************************)
(* NO SECOND BOOT.  The firmware is never asked to start a physical CPU    *)
(* that it has already started (psci.rs:198-205).                          *)
(***************************************************************************)
THEOREM BootsOnce == PsciSpec => []NoSecondBoot
BY PowerInvariantHolds, InvariantBootsOnce, PTL

\* Initially CPU 0 alone is on, with the boot launch.
LEMMA InitRefines == PsciInit => Guest!PowerInit
BY NoCPUAssumption, PsciAssumption
   DEF PsciInit, Guest!PowerInit, Power, HandedOver, affinity

\* A step that changes no CPU's reported power and no handed-over launch is a stutter of the domain.
LEMMA ViewIsKept ==
    ASSUME \A t \in CPUs : /\ Power'[t] = Power[t]
                           /\ HandedOver'[t] = HandedOver[t]
    PROVE  UNCHANGED Guest!powerVars
BY DEF Guest!powerVars, Power, HandedOver

\* Every step is an operation of the power domain or invisible to the guest.
LEMMA StepRefines ==
    ASSUME PowerInvariant, NEW c \in CPUs, ThreadStep(c)
    PROVE  Guest!PowerNext \/ UNCHANGED Guest!powerVars
<1> DEFINE Kept == \A t \in CPUs : Power'[t] = Power[t] /\ HandedOver'[t] = HandedOver[t]
<1> USE DEF PowerInvariant, PsciTypeOK, Goto, Power, HandedOver, affinity
<1>1. ASSUME NEW function \in {"CPU_ON32", "CPU_ON64"}, NEW x \in Calls, CpuOn(c, function, x)
      PROVE  Kept
  BY <1>1 DEF CpuOn
<1>2. ASSUME PowerOff(c) PROVE Guest!TurnOff(c)
  <2>1. state[c] = "ON"
    BY <1>2 DEF PowerOff, GuestRunsOnlyWhenOn
  <2> QED BY <1>2, <2>1 DEF PowerOff, Guest!TurnOff
<1>3. ASSUME Lock(c) PROVE Kept
  BY <1>3 DEF Lock
<1>4. ASSUME LoadState(c) PROVE Kept
  BY <1>4 DEF LoadState
<1>5. ASSUME StoreClaimed(c) PROVE Guest!Reserve(target[c])
  <2>1. state[target[c]] = "OFF"
    BY <1>5 DEF StoreClaimed, ClaimIsLocked
  <2> QED BY <1>5, <2>1 DEF StoreClaimed, Guest!Reserve
<1>6. ASSUME Unlock(c) PROVE Kept
  BY <1>6 DEF Unlock
<1>7. ASSUME NEW f \in Fields, StoreField(c, f) PROVE Kept
  <2>1. state[target[c]] = "CLAIMED"
    BY <1>7 DEF StoreField, OneOwner, Owns, Owning
  <2> QED BY <1>7, <2>1 DEF StoreField
<1>8. ASSUME CheckStarted(c) PROVE Kept
  BY <1>8 DEF CheckStarted
<1>9. ASSUME FirmwareCpuOn(c) PROVE Kept
  BY <1>9 DEF FirmwareCpuOn
<1>10. ASSUME FirmwareError(c) PROVE Kept
  BY <1>10 DEF FirmwareError
<1>11. ASSUME Withdraw(c) PROVE Guest!GiveUp(target[c])
  <2>1. state[target[c]] = "CLAIMED"
    BY <1>11 DEF Withdraw, OneOwner, Owns, Owning
  <2> QED BY <1>11, <2>1 DEF Withdraw, Guest!GiveUp
<1>12. ASSUME MarkStarted(c) PROVE Kept
  BY <1>12 DEF MarkStarted
<1>13. ASSUME Publish(c) PROVE \E l \in GuestLaunches : Guest!HandOver(target[c], l)
  <2>1. state[target[c]] = "CLAIMED"
    BY <1>13 DEF Publish, OneOwner, Owns, Owning
  <2>2. mailbox[target[c]] = launch[c] /\ launch[c] \in GuestLaunches
    BY <1>13 DEF Publish, LaunchIsWhole, Requesting, Owning
  <2>3. Guest!HandOver(target[c], launch[c])
    BY <1>13, <2>1, <2>2 DEF Publish, Guest!HandOver
  <2> HIDE DEF PowerInvariant, PsciTypeOK, Goto, Power, HandedOver, affinity
  <2> QED BY <2>2, <2>3
<1>14. ASSUME Signal(c) PROVE Kept
  BY <1>14 DEF Signal
<1>15. ASSUME ParkVcpu(c) PROVE Kept
  BY <1>15 DEF ParkVcpu
<1>16. ASSUME SecondaryEntry(c) PROVE Kept
  BY <1>16 DEF SecondaryEntry
<1>17. ASSUME Dispatch(c) PROVE Kept
  <2>1. state[c] # "ON"
    BY <1>17 DEF Dispatch, GuestRunsOnlyWhenOn
  <2> QED BY <1>17, <2>1 DEF Dispatch
<1>18. ASSUME Wfe(c) PROVE Kept
  BY <1>18 DEF Wfe
<1>19. ASSUME NEW f \in Fields, LoadField(c, f) PROVE Kept
  <2>1. state[c] # "ON"
    BY <1>19 DEF LoadField, GuestRunsOnlyWhenOn
  <2> QED BY <1>19, <2>1 DEF LoadField
<1>20. ASSUME StoreOn(c) PROVE Guest!Start(c)
  <2>1. state[c] = "PENDING"
    BY <1>20 DEF StoreOn, GuestRunsOnlyWhenOn
  <2>2. taken[c] \in AnyLaunch /\ \A f \in Fields : taken[c][f] = mailbox[c][f]
    BY <1>20 DEF StoreOn, LaunchIsWhole
  <2>3. taken[c] = mailbox[c] /\ mailbox[c] # NoLaunch
    BY <2>2, LaunchAssumption DEF AnyLaunch
  <2> QED BY <1>20, <2>1, <2>3 DEF StoreOn, Guest!Start
<1>21. ASSUME EnterPayload(c) PROVE Kept
  BY <1>21 DEF EnterPayload
<1>22. Kept => UNCHANGED Guest!powerVars
  BY ViewIsKept
<1>23. target[c] \in CPUs
  OBVIOUS
<1> HIDE DEF PowerInvariant, PsciTypeOK, Goto, Power, HandedOver, affinity, Kept
<1> QED BY <1>1, <1>2, <1>3, <1>4, <1>5, <1>6, <1>7, <1>8, <1>9, <1>10, <1>11, <1>12, <1>13,
           <1>14, <1>15, <1>16, <1>17, <1>18, <1>19, <1>20, <1>21, <1>22, <1>23
        DEF ThreadStep, GuestStep, RequestStep, WakeStep, Guest!PowerNext

\* The next-state relation implements the domain's, stuttering included.
LEMMA NextRefines ==
    PowerInvariant /\ [PsciNext]_psciVars => [Guest!PowerNext]_(Guest!powerVars)
<1>1. ASSUME UNCHANGED psciVars PROVE UNCHANGED Guest!powerVars
  BY <1>1 DEF psciVars, Guest!powerVars, Power, HandedOver, affinity
<1> QED BY <1>1, StepRefines DEF PsciNext, ThreadStep

(***************************************************************************)
(* THE POWER DOMAIN.  The loads, stores, lock and firmware calls of        *)
(* psci.rs and vcpu.rs implement the atomic operations of the module       *)
(* PowerDomain.                                                            *)
(***************************************************************************)
THEOREM PsciRefinesPowerDomain == PsciSpec => ImplementsPowerDomain
BY InitRefines, NextRefines, PowerInvariantHolds, PTL DEF PsciSpec, ImplementsPowerDomain
=============================================================================
