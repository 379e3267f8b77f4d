---------------------------- MODULE BakeryProofs ----------------------------
(***************************************************************************)
(* The Bakery lock excludes, for every number of CPUs and every width of   *)
(* the slot word, and implements the abstract lock.                        *)
(***************************************************************************)
EXTENDS Bakery, TLAPS

\* Every initial state satisfies the inductive invariant.
LEMMA InitLockInvariant == BakeryInit => LockInvariant
  BY BakeryAssumption
  DEF BakeryInit, LockInvariant, BakeryTypeOK, SlotFollowsPhase, PassedAreBehind,
      LateChooserIsBehind, Ahead, NotBefore, Phases, Word, Free, Choosing, CPUs

\* The words a CPU stores while it has no number.
LEMMA WordMembers == Free \in Word /\ Choosing \in Word
  BY BakeryAssumption DEF Free, Choosing, Word

\* Every load and every store of a slot preserves the inductive invariant.
LEMMA StepLockInvariant ==
  ASSUME LockInvariant, [BakeryNext]_vars
  PROVE  LockInvariant'
<1> USE BakeryAssumption DEF CPUs, Free, Choosing
<1>0. /\ BakeryTypeOK
      /\ \A d \in CPUs : SlotFollowsPhase(d) /\ PassedAreBehind(d) /\ LateChooserIsBehind(d)
  BY DEF LockInvariant
<1>1. ASSUME NEW c \in CPUs, StartChoosing(c) PROVE LockInvariant'
  <2>1. BakeryTypeOK'
    <3>1. slot' \in [CPUs -> Word]
      BY <1>0, <1>1, WordMembers DEF StartChoosing, BakeryTypeOK
    <3>2. QED
      BY <1>0, <1>1, <3>1 DEF StartChoosing, BakeryTypeOK, Phases
  <2>2. ASSUME NEW d \in CPUs PROVE SlotFollowsPhase(d)'
    BY <1>0, <1>1 DEF StartChoosing, BakeryTypeOK, SlotFollowsPhase
  <2>3. ASSUME NEW d \in CPUs, NEW e \in CPUs, d # e, Ahead(d, e),
               pc[d] \in {"await_choice", "await_turn", "inside"},
               pc'[d] \in {"await_choice", "await_turn", "inside"}
        PROVE  Ahead(d, e)'
    <3>1. d # c
      BY <1>0, <1>1, <2>3 DEF StartChoosing, BakeryTypeOK
    <3>2. slot'[d] = slot[d]
      BY <1>0, <1>1, <3>1 DEF StartChoosing, BakeryTypeOK
    <3>3. CASE e = c
      BY <1>0, <1>1, <2>3, <3>2, <3>3 DEF StartChoosing, BakeryTypeOK, SlotFollowsPhase, Ahead
    <3>4. CASE e # c
      BY <1>0, <1>1, <2>3, <3>2, <3>4 DEF StartChoosing, BakeryTypeOK, Ahead, NotBefore
    <3>5. QED
      BY <3>3, <3>4
  <2>4. ASSUME NEW d \in CPUs PROVE PassedAreBehind(d)'
    BY <1>0, <1>1, <2>3 DEF StartChoosing, BakeryTypeOK, PassedAreBehind
  <2>5. ASSUME NEW d \in CPUs PROVE LateChooserIsBehind(d)'
    <3>1. CASE d = c
      BY <1>1, <3>1 DEF StartChoosing, BakeryTypeOK, LateChooserIsBehind
    <3>2. CASE d # c /\ cursor[d] # c
      BY <1>0, <1>1, <2>3, <3>2 DEF StartChoosing, BakeryTypeOK, SlotFollowsPhase, LateChooserIsBehind
    <3>3. CASE d # c /\ cursor[d] = c
      BY <1>0, <1>1, <3>3 DEF StartChoosing, BakeryTypeOK, LateChooserIsBehind, Ahead
    <3>4. QED
      BY <3>1, <3>2, <3>3
  <2>6. QED
    BY <2>1, <2>2, <2>4, <2>5 DEF LockInvariant
<1>2. ASSUME NEW c \in CPUs, ScanSlot(c) PROVE LockInvariant'
  <2>1. BakeryTypeOK'
    <3>1. slot[cursor[c]].number \in 0 .. MaxNumber
      <4>1. cursor[c] \in CPUs
        BY <1>0, <1>2 DEF ScanSlot, BakeryTypeOK
      <4>2. slot[cursor[c]] \in Word
        BY <1>0, <4>1 DEF BakeryTypeOK
      <4>3. QED
        BY <4>2 DEF Word
    <3>2. cursor[c] + 1 \in 0 .. N
      BY <1>0, <1>2 DEF ScanSlot, BakeryTypeOK
    <3>3. QED
      BY <1>0, <1>2, <3>1, <3>2 DEF ScanSlot, BakeryTypeOK
  <2>2. ASSUME NEW d \in CPUs PROVE SlotFollowsPhase(d)'
    BY <1>0, <1>2 DEF ScanSlot, BakeryTypeOK, SlotFollowsPhase
  <2>3. ASSUME NEW d \in CPUs, NEW e \in CPUs, d # e, Ahead(d, e),
               pc[d] \in {"await_choice", "await_turn", "inside"},
               pc'[d] \in {"await_choice", "await_turn", "inside"}
        PROVE  Ahead(d, e)'
    <3>1. CASE e # c
      BY <1>0, <1>2, <2>3, <3>1 DEF ScanSlot, BakeryTypeOK, Word, Ahead, NotBefore
    <3>2. CASE e = c
      <4>1. /\ pc'[c] = "scan" /\ slot' = slot
            /\ cursor'[c] = cursor[c] + 1
            /\ maximum'[c] = IF slot[cursor[c]].number > maximum[c]
                             THEN slot[cursor[c]].number ELSE maximum[c]
        BY <1>0, <1>2 DEF ScanSlot, BakeryTypeOK
      <4>2. /\ cursor[c] \in Int /\ maximum[c] \in Int
            /\ slot[d].number \in Int /\ slot[cursor[c]].number \in Int
        BY <1>0, <1>2 DEF ScanSlot, BakeryTypeOK, Word
      <4>3. cursor[c] <= d \/ maximum[c] >= slot[d].number
        BY <1>2, <2>3, <3>2 DEF ScanSlot, Ahead
      <4>4. cursor'[c] <= d \/ maximum'[c] >= slot'[d].number
        BY <4>1, <4>2, <4>3
      <4>5. QED
        BY <3>2, <4>1, <4>4 DEF Ahead
    <3>3. QED
      BY <3>1, <3>2
  <2>4. ASSUME NEW d \in CPUs PROVE PassedAreBehind(d)'
    BY <1>0, <1>2, <2>3 DEF ScanSlot, BakeryTypeOK, PassedAreBehind
  <2>5. ASSUME NEW d \in CPUs PROVE LateChooserIsBehind(d)'
    BY <1>0, <1>2, <2>3 DEF ScanSlot, BakeryTypeOK, SlotFollowsPhase, LateChooserIsBehind
  <2>6. QED
    BY <2>1, <2>2, <2>4, <2>5 DEF LockInvariant
<1>3. ASSUME NEW c \in CPUs, Withdraw(c) PROVE LockInvariant'
  <2>1. BakeryTypeOK'
    <3>1. slot' \in [CPUs -> Word]
      BY <1>0, <1>3, WordMembers DEF Withdraw, BakeryTypeOK
    <3>2. QED
      BY <1>0, <1>3, <3>1 DEF Withdraw, BakeryTypeOK, Phases
  <2>2. ASSUME NEW d \in CPUs PROVE SlotFollowsPhase(d)'
    BY <1>0, <1>3 DEF Withdraw, BakeryTypeOK, SlotFollowsPhase
  <2>3. ASSUME NEW d \in CPUs, NEW e \in CPUs, d # e, Ahead(d, e),
               pc[d] \in {"await_choice", "await_turn", "inside"},
               pc'[d] \in {"await_choice", "await_turn", "inside"}
        PROVE  Ahead(d, e)'
    BY <1>0, <1>3, <2>3 DEF Withdraw, BakeryTypeOK, Word, SlotFollowsPhase, Ahead, NotBefore
  <2>4. ASSUME NEW d \in CPUs PROVE PassedAreBehind(d)'
    BY <1>0, <1>3, <2>3 DEF Withdraw, BakeryTypeOK, PassedAreBehind
  <2>5. ASSUME NEW d \in CPUs PROVE LateChooserIsBehind(d)'
    BY <1>0, <1>3, <2>3 DEF Withdraw, BakeryTypeOK, SlotFollowsPhase, LateChooserIsBehind
  <2>6. QED
    BY <2>1, <2>2, <2>4, <2>5 DEF LockInvariant
<1>4. ASSUME NEW c \in CPUs, TakeNumber(c) PROVE LockInvariant'
  <2>1. BakeryTypeOK'
    <3>1. maximum[c] + 1 \in 0 .. MaxNumber
      BY <1>0, <1>4 DEF TakeNumber, BakeryTypeOK
    <3>2. [choosing |-> FALSE, number |-> maximum[c] + 1] \in Word
      BY <3>1 DEF Word
    <3>3. slot' \in [CPUs -> Word]
      BY <1>0, <1>4, <3>2 DEF TakeNumber, BakeryTypeOK
    <3>4. pc' \in [CPUs -> Phases] /\ cursor' \in [CPUs -> 0 .. N]
      BY <1>0, <1>4 DEF TakeNumber, BakeryTypeOK, Phases
    <3>5. maximum' \in [CPUs -> 0 .. MaxNumber]
      BY <1>0, <1>4 DEF TakeNumber, BakeryTypeOK
    <3>6. QED
      BY <3>3, <3>4, <3>5 DEF BakeryTypeOK
  <2>2. ASSUME NEW d \in CPUs PROVE SlotFollowsPhase(d)'
    BY <1>0, <1>4 DEF TakeNumber, BakeryTypeOK, SlotFollowsPhase
  <2>3. ASSUME NEW d \in CPUs, NEW e \in CPUs, d # e, Ahead(d, e),
               pc[d] \in {"await_choice", "await_turn", "inside"},
               pc'[d] \in {"await_choice", "await_turn", "inside"}
        PROVE  Ahead(d, e)'
    <3>1. d # c
      BY <1>4, <2>3 DEF TakeNumber
    <3>2. CASE e # c
      BY <1>0, <1>4, <2>3, <3>1, <3>2 DEF TakeNumber, BakeryTypeOK, Word, Ahead, NotBefore
    <3>3. CASE e = c
      <4>1. /\ pc'[c] = "await_choice" /\ cursor'[c] = 0
            /\ slot'[c].number = maximum[c] + 1 /\ slot'[d] = slot[d]
        BY <1>0, <1>4, <3>1 DEF TakeNumber, BakeryTypeOK
      <4>2. /\ maximum[c] \in Int /\ slot[d].number \in Int
        BY <1>0 DEF BakeryTypeOK, Word
      <4>3. maximum[c] >= slot[d].number
        BY <1>4, <2>3, <3>3 DEF TakeNumber, Ahead
      <4>4. QED
        BY <3>3, <4>1, <4>2, <4>3 DEF Ahead, NotBefore
    <3>4. QED
      BY <3>2, <3>3
  <2>4. ASSUME NEW d \in CPUs PROVE PassedAreBehind(d)'
    <3>1. CASE d = c
      BY <1>0, <1>4, <3>1 DEF TakeNumber, BakeryTypeOK, PassedAreBehind
    <3>2. CASE d # c
      <4>1. pc'[d] = pc[d] /\ cursor'[d] = cursor[d]
        BY <1>0, <1>4, <3>2 DEF TakeNumber, BakeryTypeOK
      <4>2. QED
        BY <1>0, <2>3, <4>1 DEF PassedAreBehind
    <3>3. QED
      BY <3>1, <3>2
  <2>5. ASSUME NEW d \in CPUs PROVE LateChooserIsBehind(d)'
    BY <1>0, <1>4, <2>3 DEF TakeNumber, BakeryTypeOK, SlotFollowsPhase, LateChooserIsBehind
  <2>6. QED
    BY <2>1, <2>2, <2>4, <2>5 DEF LockInvariant
<1>5. ASSUME NEW c \in CPUs, SkipSelf(c) PROVE LockInvariant'
  <2>1. BakeryTypeOK'
    <3>1. cursor[c] + 1 \in 0 .. N
      BY <1>0, <1>5 DEF SkipSelf
    <3>2. QED
      BY <1>0, <1>5, <3>1 DEF SkipSelf, BakeryTypeOK
  <2>2. ASSUME NEW d \in CPUs PROVE SlotFollowsPhase(d)'
    BY <1>0, <1>5 DEF SkipSelf, BakeryTypeOK, SlotFollowsPhase
  <2>3. ASSUME NEW d \in CPUs, NEW e \in CPUs, d # e, Ahead(d, e),
               pc[d] \in {"await_choice", "await_turn", "inside"},
               pc'[d] \in {"await_choice", "await_turn", "inside"}
        PROVE  Ahead(d, e)'
    <3>1. pc' = pc /\ slot' = slot /\ maximum' = maximum
      BY <1>5 DEF SkipSelf
    <3>2. cursor[e] <= d => cursor'[e] <= d
      BY <1>0, <1>5, <2>3 DEF SkipSelf, BakeryTypeOK
    <3>3. pc[e] # "scan" \/ cursor'[e] = cursor[e]
      BY <1>0, <1>5 DEF SkipSelf, BakeryTypeOK
    <3>4. QED
      BY <2>3, <3>1, <3>2, <3>3 DEF Ahead, NotBefore
  <2>4. ASSUME NEW d \in CPUs PROVE PassedAreBehind(d)'
    <3>1. pc' = pc
      BY <1>5 DEF SkipSelf
    <3>2. \A e \in CPUs \ {d} : e < cursor'[d] => e < cursor[d]
      BY <1>0, <1>5 DEF SkipSelf, BakeryTypeOK
    <3>3. QED
      BY <1>0, <2>3, <3>1, <3>2 DEF PassedAreBehind
  <2>5. ASSUME NEW d \in CPUs PROVE LateChooserIsBehind(d)'
    BY <1>0, <1>5, <2>3 DEF SkipSelf, BakeryTypeOK, SlotFollowsPhase, LateChooserIsBehind
  <2>6. QED
    BY <2>1, <2>2, <2>4, <2>5 DEF LockInvariant
<1>6. ASSUME NEW c \in CPUs, SeeChosen(c) PROVE LockInvariant'
  <2>1. BakeryTypeOK'
    BY <1>0, <1>6 DEF SeeChosen, BakeryTypeOK, Phases
  <2>2. ASSUME NEW d \in CPUs PROVE SlotFollowsPhase(d)'
    BY <1>0, <1>6 DEF SeeChosen, BakeryTypeOK, SlotFollowsPhase
  <2>3. ASSUME NEW d \in CPUs, NEW e \in CPUs, d # e, Ahead(d, e),
               pc[d] \in {"await_choice", "await_turn", "inside"},
               pc'[d] \in {"await_choice", "await_turn", "inside"}
        PROVE  Ahead(d, e)'
    BY <1>0, <1>6, <2>3 DEF SeeChosen, BakeryTypeOK, Word, SlotFollowsPhase, Ahead, NotBefore
  <2>4. ASSUME NEW d \in CPUs PROVE PassedAreBehind(d)'
    BY <1>0, <1>6, <2>3 DEF SeeChosen, BakeryTypeOK, PassedAreBehind
  <2>5. ASSUME NEW d \in CPUs PROVE LateChooserIsBehind(d)'
    <3>1. CASE d = c
      <4>1. cursor' = cursor /\ cursor[c] \in CPUs \ {c} /\ ~slot[cursor[c]].choosing
        BY <1>6 DEF SeeChosen
      <4>2. pc'[cursor[c]] = pc[cursor[c]]
        BY <1>0, <1>6, <4>1 DEF SeeChosen, BakeryTypeOK
      <4>3. pc[cursor[c]] # "scan"
        BY <1>0, <4>1 DEF SlotFollowsPhase
      <4>4. QED
        BY <3>1, <4>1, <4>2, <4>3 DEF LateChooserIsBehind
    <3>2. CASE d # c
      BY <1>0, <1>6, <2>3, <3>2 DEF SeeChosen, BakeryTypeOK, SlotFollowsPhase, LateChooserIsBehind
    <3>3. QED
      BY <3>1, <3>2
  <2>6. QED
    BY <2>1, <2>2, <2>4, <2>5 DEF LockInvariant
<1>7. ASSUME NEW c \in CPUs, SeeTurn(c) PROVE LockInvariant'
  <2>1. BakeryTypeOK'
    <3>1. cursor[c] + 1 \in 0 .. N
      BY <1>0, <1>7 DEF SeeTurn, SlotFollowsPhase
    <3>2. QED
      BY <1>0, <1>7, <3>1 DEF SeeTurn, BakeryTypeOK, Phases
  <2>2. ASSUME NEW d \in CPUs PROVE SlotFollowsPhase(d)'
    BY <1>0, <1>7 DEF SeeTurn, BakeryTypeOK, SlotFollowsPhase
  <2>3. ASSUME NEW d \in CPUs, NEW e \in CPUs, d # e, Ahead(d, e),
               pc[d] \in {"await_choice", "await_turn", "inside"},
               pc'[d] \in {"await_choice", "await_turn", "inside"}
        PROVE  Ahead(d, e)'
    <3>1. slot' = slot /\ maximum' = maximum
      BY <1>7 DEF SeeTurn
    <3>2. CASE e # c
      <4>1. pc'[e] = pc[e] /\ cursor'[e] = cursor[e]
        BY <1>0, <1>7, <3>2 DEF SeeTurn, BakeryTypeOK
      <4>2. QED
        BY <2>3, <3>1, <4>1 DEF Ahead, NotBefore
    <3>3. CASE e = c
      <4>1. cursor[c] <= d /\ ~NotBefore(d, c)
        BY <1>7, <2>3, <3>3 DEF SeeTurn, Ahead
      <4>2. slot[d].number > 0
        BY <1>0, <2>3 DEF SlotFollowsPhase
      <4>3. cursor[c] # d
        BY <1>7, <4>1, <4>2 DEF SeeTurn
      <4>4. pc'[c] = "await_choice" /\ cursor'[c] = cursor[c] + 1 /\ cursor[c] \in Int
        BY <1>0, <1>7 DEF SeeTurn, BakeryTypeOK
      <4>5. cursor'[c] <= d
        BY <4>1, <4>3, <4>4
      <4>6. QED
        BY <3>1, <3>3, <4>1, <4>4, <4>5 DEF Ahead, NotBefore
    <3>4. QED
      BY <3>2, <3>3
  <2>4. ASSUME NEW d \in CPUs PROVE PassedAreBehind(d)'
    <3>1. CASE d # c
      <4>1. pc'[d] = pc[d] /\ cursor'[d] = cursor[d]
        BY <1>0, <1>7, <3>1 DEF SeeTurn, BakeryTypeOK
      <4>2. QED
        BY <1>0, <2>3, <4>1 DEF PassedAreBehind
    <3>2. CASE d = c
      <4> DEFINE k == cursor[c]
      <4>1. /\ k \in CPUs \ {c} /\ pc[c] = "await_turn" /\ pc'[c] = "await_choice"
            /\ cursor'[c] = k + 1
        BY <1>0, <1>7 DEF SeeTurn, BakeryTypeOK, SlotFollowsPhase
      <4>2. Ahead(c, k)
        <5>1. CASE pc[k] \in {"outside", "retry"}
          BY <5>1 DEF Ahead
        <5>2. CASE pc[k] = "scan"
          BY <1>0, <4>1, <5>2 DEF LateChooserIsBehind
        <5>3. CASE pc[k] \in {"await_choice", "await_turn", "inside"}
          <6>1. slot[k].number > 0 /\ slot[c].number \in Int /\ slot[k].number \in Int
            BY <1>0, <4>1, <5>3 DEF SlotFollowsPhase, BakeryTypeOK, Word
          <6>2. NotBefore(k, c)
            BY <1>7, <6>1 DEF SeeTurn
          <6>3. ~Ahead(k, c)
            BY <4>1, <6>2 DEF Ahead
          <6>4. pc[k] # "inside" /\ ~(c < cursor[k])
            BY <1>0, <4>1, <5>3, <6>3 DEF PassedAreBehind
          <6>5. ~NotBefore(c, k)
            BY <4>1, <6>1, <6>2 DEF NotBefore
          <6>6. cursor[k] \in Int
            BY <1>0, <4>1 DEF BakeryTypeOK
          <6>7. QED
            BY <5>3, <6>4, <6>5, <6>6 DEF Ahead
        <5>4. QED
          BY <1>0, <4>1, <5>1, <5>2, <5>3 DEF BakeryTypeOK, Phases
      <4>3. \A e \in CPUs \ {c} : e < k + 1 => Ahead(c, e)
        BY <1>0, <4>1, <4>2 DEF PassedAreBehind
      <4>4. QED
        BY <2>3, <3>2, <4>1, <4>3 DEF PassedAreBehind
    <3>3. QED
      BY <3>1, <3>2
  <2>5. ASSUME NEW d \in CPUs PROVE LateChooserIsBehind(d)'
    BY <1>0, <1>7, <2>3 DEF SeeTurn, BakeryTypeOK, SlotFollowsPhase, LateChooserIsBehind
  <2>6. QED
    BY <2>1, <2>2, <2>4, <2>5 DEF LockInvariant
<1>8. ASSUME NEW c \in CPUs, Enter(c) PROVE LockInvariant'
  <2>1. BakeryTypeOK'
    BY <1>0, <1>8 DEF Enter, BakeryTypeOK, Phases
  <2>2. ASSUME NEW d \in CPUs PROVE SlotFollowsPhase(d)'
    BY <1>0, <1>8 DEF Enter, BakeryTypeOK, SlotFollowsPhase
  <2>3. ASSUME NEW d \in CPUs, NEW e \in CPUs, d # e, Ahead(d, e),
               pc[d] \in {"await_choice", "await_turn", "inside"},
               pc'[d] \in {"await_choice", "await_turn", "inside"}
        PROVE  Ahead(d, e)'
    <3>1. e # c
      BY <1>0, <1>8, <2>3 DEF Enter, PassedAreBehind, Ahead, BakeryTypeOK
    <3>2. pc'[e] = pc[e] /\ cursor' = cursor /\ slot' = slot /\ maximum' = maximum
      BY <1>0, <1>8, <3>1 DEF Enter, BakeryTypeOK
    <3>3. QED
      BY <2>3, <3>2 DEF Ahead, NotBefore
  <2>4. ASSUME NEW d \in CPUs PROVE PassedAreBehind(d)'
    <3>1. CASE d = c
      <4>1. /\ pc[c] = "await_choice" /\ cursor[c] = N /\ pc'[c] = "inside"
        BY <1>0, <1>8 DEF Enter, BakeryTypeOK
      <4>2. \A e \in CPUs \ {c} : Ahead(c, e)
        BY <1>0, <4>1 DEF PassedAreBehind, CPUs
      <4>3. QED
        BY <2>3, <3>1, <4>1, <4>2 DEF PassedAreBehind
    <3>2. CASE d # c
      <4>1. pc'[d] = pc[d] /\ cursor'[d] = cursor[d]
        BY <1>0, <1>8, <3>2 DEF Enter, BakeryTypeOK
      <4>2. QED
        BY <1>0, <2>3, <4>1 DEF PassedAreBehind
    <3>3. QED
      BY <3>1, <3>2
  <2>5. ASSUME NEW d \in CPUs PROVE LateChooserIsBehind(d)'
    <3>1. SUFFICES ASSUME pc'[d] = "await_turn", pc'[cursor'[d]] = "scan"
                   PROVE  Ahead(d, cursor[d])'
      BY <1>8 DEF Enter, LateChooserIsBehind
    <3>2. cursor' = cursor /\ pc[d] = "await_turn"
      BY <1>0, <1>8, <3>1 DEF Enter, BakeryTypeOK
    <3>3. cursor[d] \in CPUs \ {d}
      BY <1>0, <3>2 DEF SlotFollowsPhase
    <3>4. pc[cursor[d]] = "scan"
      BY <1>0, <1>8, <3>1, <3>2, <3>3 DEF Enter, BakeryTypeOK
    <3>5. Ahead(d, cursor[d])
      BY <1>0, <3>2, <3>4 DEF LateChooserIsBehind
    <3>6. QED
      BY <2>3, <3>1, <3>2, <3>3, <3>5
  <2>6. QED
    BY <2>1, <2>2, <2>4, <2>5 DEF LockInvariant
<1>9. ASSUME NEW c \in CPUs, Leave(c) PROVE LockInvariant'
  <2>1. BakeryTypeOK'
    <3>1. slot' \in [CPUs -> Word]
      BY <1>0, <1>9, WordMembers DEF Leave, BakeryTypeOK
    <3>2. QED
      BY <1>0, <1>9, <3>1 DEF Leave, BakeryTypeOK, Phases
  <2>2. ASSUME NEW d \in CPUs PROVE SlotFollowsPhase(d)'
    BY <1>0, <1>9 DEF Leave, BakeryTypeOK, SlotFollowsPhase
  <2>3. ASSUME NEW d \in CPUs, NEW e \in CPUs, d # e, Ahead(d, e),
               pc[d] \in {"await_choice", "await_turn", "inside"},
               pc'[d] \in {"await_choice", "await_turn", "inside"}
        PROVE  Ahead(d, e)'
    BY <1>0, <1>9, <2>3 DEF Leave, BakeryTypeOK, Word, SlotFollowsPhase, Ahead, NotBefore
  <2>4. ASSUME NEW d \in CPUs PROVE PassedAreBehind(d)'
    BY <1>0, <1>9, <2>3 DEF Leave, BakeryTypeOK, PassedAreBehind
  <2>5. ASSUME NEW d \in CPUs PROVE LateChooserIsBehind(d)'
    BY <1>0, <1>9, <2>3 DEF Leave, BakeryTypeOK, SlotFollowsPhase, LateChooserIsBehind
  <2>6. QED
    BY <2>1, <2>2, <2>4, <2>5 DEF LockInvariant
<1>10. CASE UNCHANGED vars
  BY <1>0, <1>10 DEF vars, LockInvariant, BakeryTypeOK, SlotFollowsPhase, PassedAreBehind,
              LateChooserIsBehind, Ahead, NotBefore
<1>11. QED
  BY <1>1, <1>2, <1>3, <1>4, <1>5, <1>6, <1>7, <1>8, <1>9, <1>10 DEF BakeryNext, CallStep

(***************************************************************************)
(* The inductive invariant of enter()/with() holds in every reachable      *)
(* state, for every number of CPUs and every width of the slot word.       *)
(***************************************************************************)
THEOREM LockInvariantHolds == BakerySpec => []LockInvariant
<1>1. LockInvariant /\ [BakeryNext]_vars => LockInvariant'
  BY StepLockInvariant
<1>2. QED
  BY InitLockInvariant, <1>1, PTL DEF BakerySpec

\* Two CPUs inside would each have to be ahead of the other.
LEMMA InvariantExcludes == LockInvariant => MutualExclusion
  BY DEF LockInvariant, PassedAreBehind, Ahead, MutualExclusion

(***************************************************************************)
(* Mutual exclusion of Claims::enter and Mutex::with, for every number of  *)
(* CPUs and every width of the slot word.                                  *)
(***************************************************************************)
THEOREM LockExcludes == BakerySpec => []MutualExclusion
  BY LockInvariantHolds, InvariantExcludes, PTL

\* Whoever is inside has gone past every slot, so it is ahead of those that wait.
LEMMA InvariantOrders == LockInvariant => ServedInOrder
<1> SUFFICES ASSUME LockInvariant, NEW c \in CPUs, NEW d \in CPUs,
                    pc[d] = "inside", pc[c] \in {"await_choice", "await_turn"}
             PROVE  d # c /\ NotBefore(c, d)
  BY DEF ServedInOrder
<1>1. d # c
  OBVIOUS
<1>2. ~NotBefore(d, c)
  BY <1>1 DEF LockInvariant, PassedAreBehind, Ahead
<1>3. slot[c].number \in Int /\ slot[d].number \in Int /\ c \in Int /\ d \in Int
  <2>1. slot[c] \in Word /\ slot[d] \in Word
    BY DEF LockInvariant, BakeryTypeOK
  <2>2. QED
    BY <2>1, BakeryAssumption DEF Word, CPUs
<1>4. QED
  BY <1>1, <1>2, <1>3 DEF NotBefore

(***************************************************************************)
(* The lock serves in the order of the numbers: nobody who holds a number  *)
(* is overtaken (psci.rs Claims::enter, sync.rs Mutex::with).              *)
(***************************************************************************)
THEOREM LockServesInOrder == BakerySpec => []ServedInOrder
  BY LockInvariantHolds, InvariantOrders, PTL

\* What the abstract holder is when at most one CPU is inside.
HolderIsInside ==
    /\ \A c \in CPUs : pc[c] = "inside" => Holder = c
    /\ (\A c \in CPUs : pc[c] # "inside") => Holder = NoCPU

\* The abstract holder is the only CPU inside, or nobody.
LEMMA HolderUnique == MutualExclusion => HolderIsInside
<1> SUFFICES ASSUME MutualExclusion PROVE HolderIsInside
  OBVIOUS
<1>1. ASSUME NEW c \in CPUs, pc[c] = "inside" PROVE Holder = c
  BY <1>1 DEF Holder, MutualExclusion
<1>2. ASSUME \A c \in CPUs : pc[c] # "inside" PROVE Holder = NoCPU
  BY <1>2 DEF Holder
<1>3. QED
  BY <1>1, <1>2 DEF HolderIsInside

\* A step of the Bakery lock is a step of the abstract lock or leaves it alone.
LEMMA StepRefines ==
  ASSUME LockInvariant, LockInvariant', [BakeryNext]_vars
  PROVE  [AbstractLock!MutexNext]_Holder
<1>1. MutualExclusion /\ MutualExclusion'
  BY InvariantExcludes, PTL
<1>2. HolderIsInside /\ HolderIsInside'
  BY <1>1, HolderUnique, PTL
<1>3. pc \in [CPUs -> Phases]
  BY DEF LockInvariant, BakeryTypeOK
<1>4. ASSUME NEW c \in CPUs, Enter(c) PROVE AbstractLock!MutexNext
  <2>1. pc[c] # "inside" /\ pc'[c] = "inside"
        /\ \A d \in CPUs \ {c} : pc'[d] = pc[d]
    BY <1>3, <1>4 DEF Enter
  <2>2. \A d \in CPUs : pc[d] # "inside"
    BY <1>1, <2>1 DEF MutualExclusion
  <2>3. Holder = NoCPU /\ Holder' = c
    BY <1>2, <2>1, <2>2 DEF HolderIsInside
  <2>4. QED
    BY <2>3 DEF AbstractLock!MutexNext, AbstractLock!Acquire
<1>5. ASSUME NEW c \in CPUs, Leave(c) PROVE AbstractLock!MutexNext
  <2>1. pc[c] = "inside" /\ pc'[c] # "inside"
        /\ \A d \in CPUs \ {c} : pc'[d] = pc[d]
    BY <1>3, <1>5 DEF Leave
  <2>2. \A d \in CPUs : pc'[d] # "inside"
    BY <1>1, <2>1 DEF MutualExclusion
  <2>3. Holder = c /\ Holder' = NoCPU
    BY <1>2, <2>1, <2>2 DEF HolderIsInside
  <2>4. QED
    BY <2>3 DEF AbstractLock!MutexNext, AbstractLock!Release
<1>6. ASSUME \A d \in CPUs : pc'[d] = "inside" <=> pc[d] = "inside"
      PROVE  Holder' = Holder
  BY <1>2, <1>6 DEF HolderIsInside, NoCPU
<1>7. ASSUME NEW c \in CPUs,
             \/ StartChoosing(c) \/ ScanSlot(c) \/ Withdraw(c) \/ TakeNumber(c)
             \/ SkipSelf(c) \/ SeeChosen(c) \/ SeeTurn(c)
      PROVE  Holder' = Holder
  <2>1. \A d \in CPUs : pc'[d] = "inside" <=> pc[d] = "inside"
    BY <1>3, <1>7 DEF StartChoosing, ScanSlot, Withdraw, TakeNumber, SkipSelf,
                      SeeChosen, SeeTurn
  <2>2. QED
    BY <1>6, <2>1
<1>8. CASE UNCHANGED vars
  BY <1>6, <1>8 DEF vars
<1>9. QED
  BY <1>4, <1>5, <1>7, <1>8 DEF BakeryNext, CallStep

(***************************************************************************)
(* Claims::enter and Mutex::with implement the abstract lock that the      *)
(* other modules build on: entering takes a free lock, dropping the guard  *)
(* frees it, and no other load or store changes its holder.                *)
(***************************************************************************)
THEOREM LockRefinesMutex == BakerySpec => ImplementsMutex
<1>1. BakeryInit => AbstractLock!MutexInit
  BY DEF BakeryInit, AbstractLock!MutexInit, Holder
<1>2. LockInvariant /\ LockInvariant' /\ [BakeryNext]_vars => [AbstractLock!MutexNext]_Holder
  BY StepRefines
<1>3. QED
  BY <1>1, <1>2, LockInvariantHolds, PTL DEF BakerySpec, ImplementsMutex, AbstractLock!MutexSpec
=============================================================================
