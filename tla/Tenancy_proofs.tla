---------------------------- MODULE Tenancy_proofs ----------------------------
(***************************************************************************)
(* Theorems about Tenancy, for any clients, tenants, drills and borrowers. *)
(*                                                                         *)
(* Drills and their flags agree because a transaction holds the rows that  *)
(* it writes: what it has written is therefore still right when it commits.*)
(* The invariant says what the writes of an open transaction, and those of *)
(* the statement it has still to execute, have to do with the tables, and  *)
(* with those of the other transactions.                                   *)
(***************************************************************************)
EXTENDS Tenancy, TLAPS

Open(t) == [tenant |-> t, status |-> "initiated"]

\* The tenants whose flags a transaction has written or is about to write.
Claims(x) == DOMAIN x.flag \cup DOMAIN x.clears

\* No row is written by two transactions.
RowsAreHeld ==
  /\ DOMAIN txn = Clients /\ \A c \in Clients : DOMAIN txn[c] = DOMAIN NoTxn
  /\ \A c, o \in Clients : c # o =>
       /\ DOMAIN txn[c].flag \cap DOMAIN txn[o].flag = {}
       /\ DOMAIN txn[c].drill \cap DOMAIN txn[o].drill = {}
       /\ DOMAIN txn[c].audit \cap DOMAIN txn[o].audit = {}

\* A transaction that sets a flag also begins the drill that it names, and a
\* transaction that writes the drill of a flag writes the flag.
FlagsHaveDrills ==
  /\ \A c \in Clients : \A t \in DOMAIN txn[c].flag : txn[c].flag[t].enabled =>
       /\ txn[c].flag[t].drill \in DOMAIN txn[c].drill
       /\ txn[c].drill[txn[c].flag[t].drill] = Open(t)
  /\ \A c \in Clients : txn[c].clears # <<>> => DOMAIN txn[c].flag = {}
  /\ \A t \in DOMAIN flag : flag[t].enabled =>
       /\ flag[t].drill \in OpenDrills(t)
       /\ \A c \in Clients :
            flag[t].drill \in DOMAIN txn[c].drill => t \in Claims(txn[c])

\* Clear data was shown rightly, and if it was an unmasking, its row is in the log.
RightlyShown(x, log) ==
  /\ Borrowers[x.borrower] = x.tenant
  /\ IF x.row = NoRow THEN x.role \in {"role_admin", "role_compliance"}
     ELSE /\ x.role \in UnmaskingRoles
          /\ x.row \in DOMAIN log
          /\ log[x.row] = AuditRow(x.tenant, "unmask", TRUE)

\* What was shown and the log, one row for one unmasking.
Told(shown, log) ==
  /\ \A x \in shown : RightlyShown(x, log)
  /\ \A x, y \in shown : x.row = y.row /\ x.row # NoRow => x = y
  /\ \A a \in DOMAIN log : log[a].pii => \E x \in shown : x.row = a

\* The rows that a transaction has added are new.
AuditsAreTold ==
  /\ Told(unmasked, audit)
  /\ \A c \in Clients :
       /\ Told(txn[c].shown, txn[c].audit)
       /\ DOMAIN txn[c].audit \cap DOMAIN audit = {}

IInv == RowsAreHeld /\ FlagsHaveDrills /\ AuditsAreTold

-----------------------------------------------------------------------------
(* Tables and transactions *)

LEMMA EmptyTable == DOMAIN <<>> = {}
  OBVIOUS

LEMMA RowFacts ==
  ASSUME NEW key, NEW value
  PROVE  DOMAIN Row(key, value) = {key} /\ Row(key, value)[key] = value
  BY DEF Row

\* A transaction that has written nothing.
LEMMA NoTxnFacts ==
  /\ DOMAIN NoTxn.drill = {} /\ DOMAIN NoTxn.flag = {}
  /\ NoTxn.clears = <<>> /\ DOMAIN NoTxn.audit = {} /\ NoTxn.audit = <<>>
  /\ NoTxn.shown = {} /\ NoTxn.misuse = {} /\ Claims(NoTxn) = {}
  BY EmptyTable DEF NoTxn, Claims

LEMMA OpenedFacts ==
  /\ Opened.drill = <<>> /\ Opened.flag = <<>> /\ Opened.clears = <<>>
  /\ Opened.audit = <<>> /\ Opened.shown = {} /\ Opened.misuse = {}
  BY DEF Opened, NoTxn

\* One transaction changes.
LEMMA TxnChanges ==
  ASSUME DOMAIN txn = Clients, NEW c \in Clients, NEW w, txn' = [txn EXCEPT ![c] = w]
  PROVE  /\ DOMAIN txn' = Clients /\ txn'[c] = w
         /\ \A o \in Clients \ {c} : txn'[o] = txn[o]
  OBVIOUS

LEMMA NothingTold == Told({}, <<>>)
  BY EmptyTable DEF Told

\* Of two logs with rows of their own, what was told of each is told of both.
LEMMA ToldTogether ==
  ASSUME NEW s1, NEW log1, NEW s2, NEW log2, Told(s1, log1), Told(s2, log2),
         DOMAIN log2 \cap DOMAIN log1 = {}
  PROVE  Told(s1 \cup s2, Upsert(log1, log2))
  <1> DEFINE log == Upsert(log1, log2)
  <1>1. /\ DOMAIN log = DOMAIN log1 \cup DOMAIN log2
        /\ \A a \in DOMAIN log1 : log[a] = log1[a]
        /\ \A a \in DOMAIN log2 : log[a] = log2[a]
    BY DEF Upsert
  <1> HIDE DEF log
  <1>2. \A x \in s1 \cup s2 : RightlyShown(x, log)
    <2>1. ASSUME NEW x \in s1 PROVE RightlyShown(x, log)
      <3>1. RightlyShown(x, log1)
        BY DEF Told
      <3> QED
        BY <1>1, <3>1 DEF RightlyShown
    <2>2. ASSUME NEW x \in s2 PROVE RightlyShown(x, log)
      <3>1. RightlyShown(x, log2)
        BY DEF Told
      <3> QED
        BY <1>1, <3>1 DEF RightlyShown
    <2> QED
      BY <2>1, <2>2
  <1>3. /\ \A x \in s1 : x.row # NoRow => x.row \in DOMAIN log1
        /\ \A x \in s2 : x.row # NoRow => x.row \in DOMAIN log2
    BY DEF Told, RightlyShown
  <1>4. \A x, y \in s1 \cup s2 : x.row = y.row /\ x.row # NoRow => x = y
    BY <1>3 DEF Told
  <1>5. \A a \in DOMAIN log : log[a].pii => \E x \in s1 \cup s2 : x.row = a
    BY <1>1 DEF Told
  <1>6. Told(s1 \cup s2, log)
    BY <1>2, <1>4, <1>5 DEF Told
  <1> QED
    BY <1>6 DEF log

LEMMA InitHolds == Init => IInv
  <1> SUFFICES ASSUME Init PROVE IInv
    OBVIOUS
  <1>1. DOMAIN txn = Clients /\ \A c \in Clients : txn[c] = NoTxn
    BY DEF Init
  <1>2. DOMAIN flag = {}
    BY EmptyTable DEF Init
  <1>3. RowsAreHeld
    BY <1>1, NoTxnFacts DEF RowsAreHeld
  <1>4. FlagsHaveDrills
    BY <1>1, <1>2, NoTxnFacts DEF FlagsHaveDrills
  <1>5. AuditsAreTold
    <2>1. unmasked = {} /\ DOMAIN audit = {}
      BY EmptyTable DEF Init
    <2> QED
      BY <1>1, <2>1, NoTxnFacts DEF AuditsAreTold, Told
  <1> QED
    BY <1>3, <1>4, <1>5 DEF IInv

\* What a call leaves of the invariant, from the rows that it has written.
LEMMA CallHolds ==
  ASSUME IInv, NEW c \in Clients, NEW w, Ran(c, w),
         \A o \in Clients \ {c} : /\ DOMAIN w.flag \cap DOMAIN txn[o].flag = {}
                                  /\ DOMAIN w.drill \cap DOMAIN txn[o].drill = {}
                                  /\ DOMAIN w.audit \cap DOMAIN txn[o].audit = {},
         \A t \in DOMAIN w.flag : w.flag[t].enabled =>
           w.flag[t].drill \in DOMAIN w.drill /\ w.drill[w.flag[t].drill] = Open(t),
         \A t \in DOMAIN flag : flag[t].enabled /\ flag[t].drill \in DOMAIN w.drill
           => t \in Claims(w),
         DOMAIN w = DOMAIN NoTxn,
         w.clears # <<>> => DOMAIN w.flag = {},
         Told(w.shown, w.audit), DOMAIN w.audit \cap DOMAIN audit = {}
  PROVE  IInv'
  <1>1. /\ DOMAIN txn' = Clients /\ txn'[c] = w
        /\ \A o \in Clients \ {c} : txn'[o] = txn[o]
    BY TxnChanges DEF Ran, IInv, RowsAreHeld
  <1>2. RowsAreHeld'
    BY <1>1 DEF IInv, RowsAreHeld
  <1>3. \A t : OpenDrills(t)' = OpenDrills(t)
    BY DEF Ran, OpenDrills
  <1>4. FlagsHaveDrills'
    <2>1. ASSUME NEW o \in Clients, NEW t \in DOMAIN txn'[o].flag, txn'[o].flag[t].enabled
          PROVE  /\ txn'[o].flag[t].drill \in DOMAIN txn'[o].drill
                 /\ txn'[o].drill[txn'[o].flag[t].drill] = Open(t)
      BY <1>1, <2>1 DEF IInv, FlagsHaveDrills
    <2>2. ASSUME NEW t \in DOMAIN flag, flag[t].enabled
          PROVE  /\ flag[t].drill \in OpenDrills(t)
                 /\ \A o \in Clients :
                      flag[t].drill \in DOMAIN txn'[o].drill => t \in Claims(txn'[o])
      BY <1>1, <2>2 DEF IInv, FlagsHaveDrills
    <2>3. \A o \in Clients : txn'[o].clears # <<>> => DOMAIN txn'[o].flag = {}
      BY <1>1 DEF IInv, FlagsHaveDrills
    <2> QED
      BY <1>3, <2>1, <2>2, <2>3 DEF FlagsHaveDrills, Ran, Open, Claims
  <1>5. AuditsAreTold'
    <2>1. UNCHANGED <<audit, unmasked>>
      BY DEF Ran
    <2>2. \A o \in Clients : /\ Told(txn'[o].shown, txn'[o].audit)
                            /\ DOMAIN txn'[o].audit \cap DOMAIN audit = {}
      BY <1>1 DEF IInv, AuditsAreTold
    <2> QED
      BY <2>1, <2>2 DEF IInv, AuditsAreTold, Told, RightlyShown, AuditRow
  <1> QED
    BY <1>2, <1>4, <1>5 DEF IInv

\* A transaction that is rolled back has written nothing.
LEMMA RollbackHolds ==
  ASSUME IInv, NEW c \in Clients, Rollback(c)
  PROVE  IInv'
  <1>1. /\ DOMAIN txn' = Clients /\ txn'[c] = NoTxn
        /\ \A o \in Clients \ {c} : txn'[o] = txn[o]
    BY TxnChanges DEF Rollback, IInv, RowsAreHeld
  <1>2. RowsAreHeld'
    BY <1>1, NoTxnFacts DEF IInv, RowsAreHeld
  <1>3. \A t : OpenDrills(t)' = OpenDrills(t)
    BY DEF Rollback, OpenDrills
  <1>4. FlagsHaveDrills'
    BY <1>1, <1>3, NoTxnFacts DEF IInv, FlagsHaveDrills, Rollback, Open, Claims
  <1>5. AuditsAreTold'
    <2>1. UNCHANGED <<audit, unmasked>>
      BY DEF Rollback
    <2>2. \A o \in Clients : /\ Told(txn'[o].shown, txn'[o].audit)
                            /\ DOMAIN txn'[o].audit \cap DOMAIN audit = {}
      BY <1>1, NoTxnFacts, NothingTold DEF IInv, AuditsAreTold
    <2> QED
      BY <2>1, <2>2 DEF IInv, AuditsAreTold, Told, RightlyShown, AuditRow
  <1> QED
    BY <1>2, <1>4, <1>5 DEF IInv

LEMMA CommitHolds ==
  ASSUME IInv, NEW c \in Clients, Commit(c)
  PROVE  IInv'
  <1>0. Claims(txn[c]) = DOMAIN txn[c].flag
    BY EmptyTable DEF Commit, Claims
  <1>1. /\ DOMAIN txn' = Clients /\ txn'[c] = NoTxn
        /\ \A o \in Clients \ {c} : txn'[o] = txn[o]
    BY TxnChanges DEF Commit, IInv, RowsAreHeld
  <1>2. RowsAreHeld'
    BY <1>1, NoTxnFacts DEF IInv, RowsAreHeld
  <1>3. /\ DOMAIN drill' = DOMAIN drill \cup DOMAIN txn[c].drill
        /\ \A d \in DOMAIN txn[c].drill : drill'[d] = txn[c].drill[d]
        /\ \A d \in DOMAIN drill \ DOMAIN txn[c].drill : drill'[d] = drill[d]
    <2>1. drill' = Upsert(drill, txn[c].drill)
      BY DEF Commit
    <2> QED
      BY <2>1 DEF Upsert
  <1>4. /\ DOMAIN flag' = DOMAIN flag \cup DOMAIN txn[c].flag
        /\ \A t \in DOMAIN txn[c].flag : flag'[t] = txn[c].flag[t]
        /\ \A t \in DOMAIN flag \ DOMAIN txn[c].flag : flag'[t] = flag[t]
    <2>1. flag' = Upsert(flag, txn[c].flag)
      BY DEF Commit
    <2> QED
      BY <2>1 DEF Upsert
  <1>5. FlagsHaveDrills'
    <2>1. ASSUME NEW o \in Clients, NEW t \in DOMAIN txn'[o].flag, txn'[o].flag[t].enabled
          PROVE  /\ txn'[o].flag[t].drill \in DOMAIN txn'[o].drill
                 /\ txn'[o].drill[txn'[o].flag[t].drill] = Open(t)
      BY <1>1, <2>1, NoTxnFacts DEF IInv, FlagsHaveDrills
    <2>2. ASSUME NEW t \in DOMAIN flag', flag'[t].enabled
          PROVE  /\ flag'[t].drill \in OpenDrills(t)'
                 /\ \A o \in Clients :
                      flag'[t].drill \in DOMAIN txn'[o].drill => t \in Claims(txn'[o])
      <3>1. CASE t \in DOMAIN txn[c].flag
        <4> DEFINE d == txn[c].flag[t].drill
        <4>1. flag'[t].drill = d /\ d \in DOMAIN txn[c].drill /\ txn[c].drill[d] = Open(t)
          BY <1>4, <2>2, <3>1 DEF IInv, FlagsHaveDrills
        <4>2. d \in OpenDrills(t)'
          BY <1>3, <4>1 DEF OpenDrills, Open
        <4>3. \A o \in Clients : d \notin DOMAIN txn'[o].drill
          BY <1>1, <4>1, NoTxnFacts DEF IInv, RowsAreHeld
        <4> QED
          BY <4>1, <4>2, <4>3
      <3>2. CASE t \notin DOMAIN txn[c].flag
        <4>1. /\ t \in DOMAIN flag /\ flag'[t] = flag[t] /\ flag[t].enabled
              /\ flag[t].drill \in OpenDrills(t) /\ flag[t].drill \notin DOMAIN txn[c].drill
          BY <1>0, <1>4, <2>2, <3>2 DEF IInv, FlagsHaveDrills
        <4>2. flag[t].drill \in OpenDrills(t)'
          BY <1>3, <4>1 DEF OpenDrills
        <4>3. \A o \in Clients :
                flag[t].drill \in DOMAIN txn'[o].drill => t \in Claims(txn'[o])
          BY <1>1, <4>1, NoTxnFacts DEF IInv, FlagsHaveDrills
        <4> QED
          BY <4>1, <4>2, <4>3
      <3> QED
        BY <3>1, <3>2
    <2>3. \A o \in Clients : txn'[o].clears # <<>> => DOMAIN txn'[o].flag = {}
      BY <1>1, NoTxnFacts DEF IInv, FlagsHaveDrills
    <2> QED
      BY <2>1, <2>2, <2>3 DEF FlagsHaveDrills, Open, Claims
  <1>6. AuditsAreTold'
    <2>1. audit' = Upsert(audit, txn[c].audit) /\ unmasked' = unmasked \cup txn[c].shown
      BY DEF Commit
    <2>2. /\ Told(unmasked, audit) /\ Told(txn[c].shown, txn[c].audit)
          /\ DOMAIN txn[c].audit \cap DOMAIN audit = {}
      BY DEF IInv, AuditsAreTold
    <2>3. Told(unmasked', audit')
      BY <2>1, <2>2, ToldTogether
    <2>4. DOMAIN audit' = DOMAIN audit \cup DOMAIN txn[c].audit
      BY <2>1 DEF Upsert
    <2>5. ASSUME NEW o \in Clients
          PROVE  /\ Told(txn'[o].shown, txn'[o].audit)
                 /\ DOMAIN txn'[o].audit \cap DOMAIN audit' = {}
      <3>1. CASE o = c
        BY <1>1, <3>1, NoTxnFacts, NothingTold
      <3>2. CASE o # c
        BY <1>1, <2>4, <3>2 DEF IInv, AuditsAreTold, RowsAreHeld
      <3> QED
        BY <3>1, <3>2
    <2> QED
      BY <2>3, <2>5 DEF AuditsAreTold, Told, RightlyShown, AuditRow
  <1> QED
    BY <1>2, <1>5, <1>6 DEF IInv

-----------------------------------------------------------------------------
(* The calls *)

LEMMA BeginHolds ==
  ASSUME IInv, NEW c \in Clients, NEW t \in Tenants, sp_begin_dr_drill(c, t)
  PROVE  IInv'
  <1>1. PICK d \in DrillIds \ DOMAIN drill :
          /\ FlagIsFree(t) /\ DrillIsFree(d)
          /\ Ran(c, [Opened EXCEPT !.drill = Row(d, [tenant |-> t, status |-> "initiated"]),
                                   !.flag = FlagOn(t, d),
                                   !.misuse = IF OpenDrills(t) = {} THEN {} ELSE {t}])
    BY DEF sp_begin_dr_drill
  <1> DEFINE w == [Opened EXCEPT !.drill = Row(d, [tenant |-> t, status |-> "initiated"]),
                                 !.flag = FlagOn(t, d),
                                 !.misuse = IF OpenDrills(t) = {} THEN {} ELSE {t}]
  <1>2. /\ DOMAIN w.drill = {d} /\ w.drill[d] = Open(t)
        /\ DOMAIN w.flag = {t} /\ w.flag[t] = [enabled |-> TRUE, drill |-> d]
        /\ DOMAIN w = DOMAIN NoTxn /\ w.shown = {} /\ w.audit = <<>> /\ w.clears = <<>>
    BY RowFacts, EmptyTable DEF Opened, NoTxn, FlagOn, Open
  <1>3. Ran(c, w)
    BY <1>1
  <1> HIDE DEF w
  <1>4. \A o \in Clients \ {c} : /\ DOMAIN w.flag \cap DOMAIN txn[o].flag = {}
                                 /\ DOMAIN w.drill \cap DOMAIN txn[o].drill = {}
                                 /\ DOMAIN w.audit \cap DOMAIN txn[o].audit = {}
    BY <1>1, <1>2, EmptyTable DEF FlagIsFree, DrillIsFree
  <1>5. \A u \in DOMAIN flag : flag[u].enabled => flag[u].drill \notin DOMAIN w.drill
    BY <1>1, <1>2 DEF IInv, FlagsHaveDrills, OpenDrills
  <1>6. Told(w.shown, w.audit) /\ DOMAIN w.audit \cap DOMAIN audit = {}
    BY <1>2, NothingTold, EmptyTable
  <1>7. \A u \in DOMAIN w.flag : w.flag[u].enabled =>
           w.flag[u].drill \in DOMAIN w.drill /\ w.drill[w.flag[u].drill] = Open(u)
    BY <1>2
  <1> QED
    BY <1>2, <1>3, <1>4, <1>5, <1>6, <1>7, CallHolds

LEMMA CompleteHolds ==
  ASSUME IInv, NEW c \in Clients, NEW t \in Tenants, sp_complete_dr_drill(c, t)
  PROVE  IInv'
  <1>1. PICK d \in DrillIds, s \in {"completed", "failed"} :
          /\ OwnDrill(t, d) => DrillIsFree(d)
          /\ Ran(c, [Opened EXCEPT
               !.drill = IF OwnDrill(t, d) THEN Row(d, [drill[d] EXCEPT !.status = s]) ELSE <<>>,
               !.clears = Row(t, d),
               !.misuse = IF d \in OpenDrills(t) THEN {} ELSE {t}])
    BY DEF sp_complete_dr_drill
  <1> DEFINE w == [Opened EXCEPT
               !.drill = IF OwnDrill(t, d) THEN Row(d, [drill[d] EXCEPT !.status = s]) ELSE <<>>,
               !.clears = Row(t, d),
               !.misuse = IF d \in OpenDrills(t) THEN {} ELSE {t}]
  <1>2. /\ DOMAIN w.drill = IF OwnDrill(t, d) THEN {d} ELSE {}
        /\ DOMAIN w.flag = {} /\ DOMAIN w.clears = {t}
        /\ DOMAIN w = DOMAIN NoTxn /\ w.shown = {} /\ w.audit = <<>>
    BY RowFacts, EmptyTable DEF Opened, NoTxn
  <1>3. Ran(c, w)
    BY <1>1
  <1> HIDE DEF w
  <1>4. \A o \in Clients \ {c} : /\ DOMAIN w.flag \cap DOMAIN txn[o].flag = {}
                                 /\ DOMAIN w.drill \cap DOMAIN txn[o].drill = {}
                                 /\ DOMAIN w.audit \cap DOMAIN txn[o].audit = {}
    BY <1>1, <1>2, EmptyTable DEF DrillIsFree
  <1>5. \A u \in DOMAIN flag : flag[u].enabled /\ flag[u].drill \in DOMAIN w.drill
          => u \in Claims(w)
    <2> SUFFICES ASSUME NEW u \in DOMAIN flag, flag[u].enabled, flag[u].drill \in DOMAIN w.drill
                 PROVE  u \in Claims(w)
      OBVIOUS
    <2>1. flag[u].drill = d /\ OwnDrill(t, d)
      BY <1>2
    <2>2. drill[d] = [tenant |-> u, status |-> "initiated"]
      BY <2>1 DEF IInv, FlagsHaveDrills, OpenDrills
    <2>3. drill[d].tenant = u /\ drill[d].tenant = t
      BY <2>1, <2>2 DEF OwnDrill
    <2> QED
      BY <1>2, <2>3 DEF Claims
  <1>6. Told(w.shown, w.audit) /\ DOMAIN w.audit \cap DOMAIN audit = {}
    BY <1>2, NothingTold, EmptyTable
  <1>7. \A u \in DOMAIN w.flag : w.flag[u].enabled =>
           w.flag[u].drill \in DOMAIN w.drill /\ w.drill[w.flag[u].drill] = Open(u)
    BY <1>2
  <1> QED
    BY <1>2, <1>3, <1>4, <1>5, <1>6, <1>7, CallHolds

LEMMA ClearFacts ==
  ASSUME IInv, NEW c \in Clients, clearFlag(c)
  PROVE  LET w == txn'[c]
         IN  /\ \A o \in Clients \ {c} : txn'[o] = txn[o]
             /\ DOMAIN w.flag = DOMAIN txn[c].clears \cap DOMAIN flag
             /\ \A t \in DOMAIN w.flag :
                  ~w.flag[t].enabled /\ \A o \in Clients : t \notin DOMAIN txn[o].flag
             /\ w.clears = <<>> /\ w.drill = txn[c].drill
             /\ w.audit = txn[c].audit /\ w.shown = txn[c].shown
             /\ w.misuse = txn[c].misuse
             /\ DOMAIN txn' = Clients /\ DOMAIN w = DOMAIN NoTxn
             /\ UNCHANGED <<drill, flag, audit, misused, unmasked>>
             /\ DOMAIN txn[c].flag = {}
  <1> DEFINE w == [txn[c] EXCEPT !.flag = FlagOff(txn[c].clears), !.clears = <<>>]
  <1>1. /\ DOMAIN txn' = Clients /\ txn'[c] = w
        /\ \A o \in Clients \ {c} : txn'[o] = txn[o]
    <2>1. txn' = [txn EXCEPT ![c] = w]
      BY DEF clearFlag
    <2> QED
      BY <2>1, TxnChanges DEF IInv, RowsAreHeld
  <1>2. /\ w.flag = FlagOff(txn[c].clears) /\ w.clears = <<>>
        /\ w.drill = txn[c].drill /\ w.audit = txn[c].audit /\ w.shown = txn[c].shown
        /\ w.misuse = txn[c].misuse
    BY DEF IInv, RowsAreHeld, NoTxn
  <1> HIDE DEF w
  <1>3. /\ DOMAIN w.flag = DOMAIN txn[c].clears \cap DOMAIN flag
        /\ \A t \in DOMAIN w.flag : ~w.flag[t].enabled
    BY <1>2 DEF FlagOff
  <1>4. \A t \in DOMAIN w.flag : \A o \in Clients : t \notin DOMAIN txn[o].flag
    BY <1>2 DEF clearFlag, FlagIsFree
  <1>5. DOMAIN w = DOMAIN NoTxn
    BY DEF IInv, RowsAreHeld, w
  <1>6. txn[c].clears # <<>> => DOMAIN txn[c].flag = {}
    BY DEF IInv, FlagsHaveDrills
  <1> QED
    BY <1>1, <1>2, <1>3, <1>4, <1>5, <1>6 DEF clearFlag

LEMMA ClearHolds ==
  ASSUME IInv, NEW c \in Clients, clearFlag(c)
  PROVE  IInv'
  <1> DEFINE w == txn'[c]
  <1>1. /\ \A o \in Clients \ {c} : txn'[o] = txn[o]
        /\ DOMAIN w.flag = DOMAIN txn[c].clears \cap DOMAIN flag
        /\ \A t \in DOMAIN w.flag :
             ~w.flag[t].enabled /\ \A o \in Clients : t \notin DOMAIN txn[o].flag
        /\ w.clears = <<>> /\ w.drill = txn[c].drill
        /\ w.audit = txn[c].audit /\ w.shown = txn[c].shown
        /\ DOMAIN txn' = Clients /\ DOMAIN w = DOMAIN NoTxn
        /\ UNCHANGED <<drill, flag, audit, unmasked>>
        /\ DOMAIN txn[c].flag = {}
    BY ClearFacts
  <1>2. RowsAreHeld'
    <2>1. ASSUME NEW o \in Clients PROVE DOMAIN txn'[o] = DOMAIN NoTxn
      BY <1>1 DEF IInv, RowsAreHeld
    <2>2. ASSUME NEW o \in Clients, NEW q \in Clients, o # q
          PROVE  /\ DOMAIN txn'[o].flag \cap DOMAIN txn'[q].flag = {}
                 /\ DOMAIN txn'[o].drill \cap DOMAIN txn'[q].drill = {}
                 /\ DOMAIN txn'[o].audit \cap DOMAIN txn'[q].audit = {}
      <3>1. /\ DOMAIN txn[o].flag \cap DOMAIN txn[q].flag = {}
            /\ DOMAIN txn[o].drill \cap DOMAIN txn[q].drill = {}
            /\ DOMAIN txn[o].audit \cap DOMAIN txn[q].audit = {}
        BY <2>2 DEF IInv, RowsAreHeld
      <3>2. \A x \in Clients : txn'[x].drill = txn[x].drill /\ txn'[x].audit = txn[x].audit
        BY <1>1
      <3>3. DOMAIN txn'[o].flag \cap DOMAIN txn'[q].flag = {}
        BY <1>1, <2>2, <3>1
      <3> QED
        BY <3>1, <3>2, <3>3
    <2> QED
      BY <1>1, <2>1, <2>2 DEF RowsAreHeld
  <1>3. \A t : OpenDrills(t)' = OpenDrills(t)
    BY <1>1 DEF OpenDrills
  <1>4. FlagsHaveDrills'
    <2>1. ASSUME NEW o \in Clients, NEW t \in DOMAIN txn'[o].flag, txn'[o].flag[t].enabled
          PROVE  /\ txn'[o].flag[t].drill \in DOMAIN txn'[o].drill
                 /\ txn'[o].drill[txn'[o].flag[t].drill] = Open(t)
      BY <1>1, <2>1 DEF IInv, FlagsHaveDrills
    <2>2. ASSUME NEW t \in DOMAIN flag, flag[t].enabled, NEW o \in Clients,
                 flag[t].drill \in DOMAIN txn'[o].drill
          PROVE  t \in Claims(txn'[o])
      <3>1. flag[t].drill \in DOMAIN txn[o].drill
        BY <1>1, <2>2
      <3>2. t \in Claims(txn[o])
        BY <2>2, <3>1 DEF IInv, FlagsHaveDrills
      <3> QED
        BY <1>1, <3>2 DEF Claims
    <2>3. \A o \in Clients : txn'[o].clears # <<>> => DOMAIN txn'[o].flag = {}
      BY <1>1 DEF IInv, FlagsHaveDrills
    <2>4. \A t \in DOMAIN flag : flag[t].enabled => flag[t].drill \in OpenDrills(t)
      BY DEF IInv, FlagsHaveDrills
    <2> QED
      BY <1>1, <1>3, <2>1, <2>2, <2>3, <2>4 DEF FlagsHaveDrills, Open, Claims
  <1>5. AuditsAreTold'
    <2>1. \A o \in Clients : /\ Told(txn'[o].shown, txn'[o].audit)
                            /\ DOMAIN txn'[o].audit \cap DOMAIN audit = {}
      BY <1>1 DEF IInv, AuditsAreTold
    <2> QED
      BY <1>1, <2>1 DEF IInv, AuditsAreTold, Told, RightlyShown, AuditRow
  <1> QED
    BY <1>2, <1>4, <1>5 DEF IInv

\* The calls that write nothing but the audit.
LEMMA AuditHolds ==
  ASSUME IInv, NEW c \in Clients, NEW w, Ran(c, w), DOMAIN w = DOMAIN NoTxn,
         w.drill = <<>>, w.flag = <<>>, w.clears = <<>>,
         Told(w.shown, w.audit), \A a \in DOMAIN w.audit : a \notin DOMAIN audit /\ AuditIsFree(a)
  PROVE  IInv'
  <1>1. \A o \in Clients \ {c} : /\ DOMAIN w.flag \cap DOMAIN txn[o].flag = {}
                                 /\ DOMAIN w.drill \cap DOMAIN txn[o].drill = {}
                                 /\ DOMAIN w.audit \cap DOMAIN txn[o].audit = {}
    BY EmptyTable DEF AuditIsFree
  <1> QED
    BY <1>1, CallHolds, EmptyTable

LEMMA RecordHolds ==
  ASSUME IInv, NEW c \in Clients, NEW t \in Tenants, sp_record_dr_access(c, t)
  PROVE  IInv'
  <1>1. PICK a \in AuditIds \ DOMAIN audit, action \in Actions :
          /\ AuditIsFree(a)
          /\ Ran(c, [Opened EXCEPT !.audit = Row(a, AuditRow(t, action, FALSE))])
    BY DEF sp_record_dr_access
  <1> DEFINE w == [Opened EXCEPT !.audit = Row(a, AuditRow(t, action, FALSE))]
  <1>2. /\ w.drill = <<>> /\ w.flag = <<>> /\ w.clears = <<>> /\ DOMAIN w = DOMAIN NoTxn
        /\ w.shown = {} /\ w.audit = Row(a, AuditRow(t, action, FALSE))
    BY DEF Opened, NoTxn
  <1>3. Ran(c, w)
    BY <1>1
  <1> HIDE DEF w
  <1>4. DOMAIN w.audit = {a} /\ ~w.audit[a].pii
    <2>1. PICK row : row = AuditRow(t, action, FALSE)
      OBVIOUS
    <2>2. DOMAIN w.audit = {a} /\ w.audit[a] = row
      BY <1>2, <2>1, RowFacts
    <2>3. ~row.pii
      BY <2>1 DEF AuditRow
    <2> QED
      BY <2>2, <2>3
  <1>5. Told(w.shown, w.audit)
    BY <1>2, <1>4 DEF Told
  <1> QED
    BY <1>1, <1>2, <1>3, <1>4, <1>5, AuditHolds

LEMMA UnmaskHolds ==
  ASSUME IInv, NEW c \in Clients, NEW t \in Tenants, sp_unmask_borrower(c, t)
  PROVE  IInv'
  <1>1. PICK b \in DOMAIN Borrowers, role \in Roles, a \in AuditIds \ DOMAIN audit :
          /\ MayUnmask(t, role, b) /\ AuditIsFree(a)
          /\ Ran(c, [Opened EXCEPT !.audit = Row(a, AuditRow(t, "unmask", TRUE)),
                                   !.shown = {Shown(t, role, b, a)}])
    BY DEF sp_unmask_borrower
  <1> DEFINE w == [Opened EXCEPT !.audit = Row(a, AuditRow(t, "unmask", TRUE)),
                                 !.shown = {Shown(t, role, b, a)}]
  <1>2. /\ w.drill = <<>> /\ w.flag = <<>> /\ w.clears = <<>> /\ DOMAIN w = DOMAIN NoTxn
        /\ w.shown = {Shown(t, role, b, a)}
        /\ w.audit = Row(a, AuditRow(t, "unmask", TRUE))
    BY DEF Opened, NoTxn
  <1>3. Ran(c, w)
    BY <1>1
  <1> HIDE DEF w
  <1>4. DOMAIN w.audit = {a} /\ w.audit[a] = AuditRow(t, "unmask", TRUE)
    <2>1. PICK row : row = AuditRow(t, "unmask", TRUE)
      OBVIOUS
    <2>2. w.audit = Row(a, row)
      BY <1>2, <2>1
    <2>3. DOMAIN Row(a, row) = {a} /\ Row(a, row)[a] = row
      BY RowFacts
    <2>4. DOMAIN w.audit = {a} /\ w.audit[a] = row
      BY <2>2, <2>3
    <2> QED
      BY <2>1, <2>4
  <1>5. Told(w.shown, w.audit)
    <2>1. RightlyShown(Shown(t, role, b, a), w.audit)
      BY <1>1, <1>4, TenancyAssumption DEF RightlyShown, Shown, MayUnmask
    <2>2. Shown(t, role, b, a).row = a
      BY DEF Shown
    <2> QED
      BY <1>2, <1>4, <2>1, <2>2 DEF Told
  <1> QED
    BY <1>1, <1>2, <1>3, <1>4, <1>5, AuditHolds

LEMMA ViewHolds ==
  ASSUME IInv, NEW c \in Clients, NEW t \in Tenants, borrowers_masked(c, t)
  PROVE  IInv'
  <1>1. PICK b \in DOMAIN Borrowers, role \in Roles \cap ClearRoles :
          /\ t = Borrowers[b]
          /\ Ran(c, [Opened EXCEPT !.shown = {Shown(t, role, b, NoRow)}])
    BY DEF borrowers_masked
  <1> DEFINE w == [Opened EXCEPT !.shown = {Shown(t, role, b, NoRow)}]
  <1>2. /\ w.drill = <<>> /\ w.flag = <<>> /\ w.clears = <<>> /\ DOMAIN w = DOMAIN NoTxn
        /\ w.shown = {Shown(t, role, b, NoRow)} /\ w.audit = <<>>
    BY DEF Opened, NoTxn
  <1>3. Ran(c, w)
    BY <1>1
  <1> HIDE DEF w
  <1>4. DOMAIN w.audit = {}
    BY <1>2, EmptyTable
  <1>5. Told(w.shown, w.audit)
    <2>1. RightlyShown(Shown(t, role, b, NoRow), w.audit)
      BY <1>1 DEF RightlyShown, Shown, ClearRoles
    <2> QED
      BY <1>2, <1>4, <2>1 DEF Told
  <1> QED
    BY <1>1, <1>2, <1>3, <1>4, <1>5, AuditHolds

LEMMA StepHolds == IInv /\ [Next]_vars => IInv'
  <1> SUFFICES ASSUME IInv, [Next]_vars PROVE IInv'
    OBVIOUS
  <1>1. ASSUME NEW c \in Clients, NEW t \in Tenants,
               \/ sp_begin_dr_drill(c, t) \/ sp_complete_dr_drill(c, t)
               \/ sp_record_dr_access(c, t) \/ sp_unmask_borrower(c, t)
               \/ borrowers_masked(c, t)
        PROVE  IInv'
    BY <1>1, BeginHolds, CompleteHolds, RecordHolds, UnmaskHolds, ViewHolds
  <1>2. ASSUME NEW c \in Clients, clearFlag(c) \/ Commit(c) \/ Rollback(c) PROVE IInv'
    BY <1>2, ClearHolds, CommitHolds, RollbackHolds
  <1>3. ASSUME UNCHANGED vars PROVE IInv'
    <2>1. \A t : OpenDrills(t)' = OpenDrills(t)
      BY <1>3 DEF vars, OpenDrills
    <2>2. RowsAreHeld' /\ FlagsHaveDrills'
      BY <1>3, <2>1 DEF vars, IInv, RowsAreHeld, FlagsHaveDrills, Open, Claims
    <2>3. AuditsAreTold'
      BY <1>3 DEF vars, IInv, AuditsAreTold, Told, RightlyShown, AuditRow
    <2> QED
      BY <2>2, <2>3 DEF IInv
  <1> QED
    BY <1>1, <1>2, <1>3 DEF Next

LEMMA Invariance == Spec => []IInv
  BY InitHolds, StepHolds, PTL DEF Spec

-----------------------------------------------------------------------------
\* The flag of a tenant that is on names a drill of that tenant under way: no commit
\* of a drill's completion (005-pitr-scaffolding.sql) leaves the flag pointing to it,
\* in any interleaving of any number of transactions.
THEOREM FlagNamed == Spec => []FlagNamesOpenDrill
  <1>1. IInv => FlagNamesOpenDrill
    BY DEF IInv, FlagsHaveDrills, FlagNamesOpenDrill
  <1> QED
    BY <1>1, Invariance, PTL

\* The committed unmaskings of a tenant and the rows of its audit that list fields are
\* one to one, and what the views mask was shown without such a row only by them, to
\* admin or compliance, whatever actions the callers of sp_record_dr_access write in the audit
\* (003-masking.sql, 005-pitr-scaffolding.sql).
THEOREM UnmaskingAudited == Spec => []UnmaskingIsAudited
  <1>1. IInv => UnmaskingIsAudited
    BY DEF IInv, AuditsAreTold, Told, RightlyShown, UnmaskingIsAudited
  <1> QED
    BY <1>1, Invariance, PTL

-----------------------------------------------------------------------------
(* While a tenant does not misuse its drills *)

DrillRow == [tenant : Tenants, status : {"initiated", "completed", "failed"}]

RowsAreTyped ==
  /\ \A d \in DOMAIN drill : drill[d] \in DrillRow
  /\ \A c \in Clients : \A d \in DOMAIN txn[c].drill : txn[c].drill[d] \in DrillRow

\* What is begun is new, and goes with the flag.
BeginningsAreNew ==
  \A c \in Clients : \A d \in DOMAIN txn[c].drill : \A t \in Tenants :
    txn[c].drill[d] = Open(t) =>
      /\ d \notin DOMAIN drill
      /\ t \in DOMAIN txn[c].flag
      /\ txn[c].flag[t].enabled /\ txn[c].flag[t].drill = d

OneDrill ==
  \A t \in Tenants \ misused : \A d, e \in OpenDrills(t) : d = e

\* A tenant whose flag is claimed has no drill, if one is begun, or the drill that is
\* completed and no other.
ClaimIsProper(t, x) ==
  IF t \in DOMAIN x.flag /\ x.flag[t].enabled THEN OpenDrills(t) = {}
  ELSE OpenDrills(t) # {} /\ OpenDrills(t) \subseteq DOMAIN x.drill

\* A transaction that is no misuse completes a drill with its flag, and finds no drill
\* or the one it completes.
UseIsProper ==
  \A c \in Clients : \A t \in Tenants \ (misused \cup txn[c].misuse) :
    /\ \A d \in OpenDrills(t) : d \in DOMAIN txn[c].drill => t \in Claims(txn[c])
    /\ t \in Claims(txn[c]) => ClaimIsProper(t, txn[c])

FInv == RowsAreTyped /\ BeginningsAreNew /\ OneDrill /\ UseIsProper /\ FlagFollowsDrills

LEMMA InitFollows == Init => FInv
  <1> SUFFICES ASSUME Init PROVE FInv
    OBVIOUS
  <1>1. \A c \in Clients : txn[c] = NoTxn
    BY DEF Init
  <1>2. DOMAIN flag = {} /\ DOMAIN drill = {}
    BY EmptyTable DEF Init
  <1>3. \A t : OpenDrills(t) = {}
    BY <1>2 DEF OpenDrills
  <1>4. RowsAreTyped /\ BeginningsAreNew /\ UseIsProper
    BY <1>1, <1>2, <1>3, NoTxnFacts DEF RowsAreTyped, BeginningsAreNew, UseIsProper
  <1>5. OneDrill /\ FlagFollowsDrills
    BY <1>2, <1>3 DEF OneDrill, FlagFollowsDrills
  <1> QED
    BY <1>4, <1>5 DEF FInv

\* What a call leaves of the invariant, from the rows that it has written.
LEMMA CallFollows ==
  ASSUME IInv, FInv, NEW c \in Clients, NEW w, Ran(c, w),
         \A d \in DOMAIN w.drill : w.drill[d] \in DrillRow,
         \A d \in DOMAIN w.drill : \A t \in Tenants : w.drill[d] = Open(t) =>
           /\ d \notin DOMAIN drill /\ t \in DOMAIN w.flag
           /\ w.flag[t].enabled /\ w.flag[t].drill = d,
         \A t \in Tenants \ (misused \cup w.misuse) :
           /\ \A d \in OpenDrills(t) : d \in DOMAIN w.drill => t \in Claims(w)
           /\ t \in Claims(w) => ClaimIsProper(t, w)
  PROVE  FInv'
  <1>1. /\ txn'[c] = w
        /\ \A o \in Clients \ {c} : txn'[o] = txn[o]
    BY TxnChanges DEF Ran, IInv, RowsAreHeld
  <1>2. \A t : OpenDrills(t)' = OpenDrills(t)
    BY DEF Ran, OpenDrills
  <1>3. UNCHANGED <<drill, flag, misused>>
    BY DEF Ran
  <1>4. RowsAreTyped'
    BY <1>1, <1>3 DEF FInv, RowsAreTyped, DrillRow
  <1>5. BeginningsAreNew'
    BY <1>1, <1>3 DEF FInv, BeginningsAreNew, Open
  <1>6. UseIsProper'
    <2> SUFFICES ASSUME NEW o \in Clients, NEW t \in Tenants \ (misused \cup txn'[o].misuse)
                 PROVE  /\ \A d \in OpenDrills(t) :
                             d \in DOMAIN txn'[o].drill => t \in Claims(txn'[o])
                        /\ t \in Claims(txn'[o]) => ClaimIsProper(t, txn'[o])
      BY <1>2, <1>3 DEF UseIsProper, Claims, ClaimIsProper
    <2> QED
      BY <1>1 DEF FInv, UseIsProper
  <1>7. OneDrill' /\ FlagFollowsDrills'
    BY <1>2, <1>3 DEF FInv, OneDrill, FlagFollowsDrills
  <1> QED
    BY <1>4, <1>5, <1>6, <1>7 DEF FInv

LEMMA BeginFollows ==
  ASSUME IInv, FInv, NEW c \in Clients, NEW t \in Tenants, sp_begin_dr_drill(c, t)
  PROVE  FInv'
  <1>1. PICK d \in DrillIds \ DOMAIN drill :
          Ran(c, [Opened EXCEPT !.drill = Row(d, [tenant |-> t, status |-> "initiated"]),
                                !.flag = FlagOn(t, d),
                                !.misuse = IF OpenDrills(t) = {} THEN {} ELSE {t}])
    BY DEF sp_begin_dr_drill
  <1> DEFINE w == [Opened EXCEPT !.drill = Row(d, [tenant |-> t, status |-> "initiated"]),
                                 !.flag = FlagOn(t, d),
                                 !.misuse = IF OpenDrills(t) = {} THEN {} ELSE {t}]
  <1>2. /\ DOMAIN w.drill = {d} /\ w.drill[d] = Open(t)
        /\ DOMAIN w.flag = {t} /\ w.flag[t] = [enabled |-> TRUE, drill |-> d]
        /\ w.misuse = IF OpenDrills(t) = {} THEN {} ELSE {t}
        /\ w.clears = <<>>
    BY RowFacts DEF Opened, NoTxn, FlagOn, Open
  <1>3. Ran(c, w)
    BY <1>1
  <1> HIDE DEF w
  <1>4. \A e \in DOMAIN w.drill : w.drill[e] \in DrillRow
    BY <1>2 DEF DrillRow, Open
  <1>5. \A u : Open(t) = Open(u) => t = u
    BY DEF Open
  <1>6. \A e \in DOMAIN w.drill : \A u \in Tenants : w.drill[e] = Open(u) =>
          /\ e \notin DOMAIN drill /\ u \in DOMAIN w.flag
          /\ w.flag[u].enabled /\ w.flag[u].drill = e
    BY <1>1, <1>2, <1>5
  <1>7. \A u \in Tenants \ (misused \cup w.misuse) :
          /\ \A e \in OpenDrills(u) : e \in DOMAIN w.drill => u \in Claims(w)
          /\ u \in Claims(w) => ClaimIsProper(u, w)
    <2>1. Claims(w) = {t}
      BY <1>2, EmptyTable DEF Claims
    <2> QED
      BY <1>1, <1>2, <2>1 DEF OpenDrills, ClaimIsProper
  <1> QED
    BY <1>3, <1>4, <1>6, <1>7, CallFollows

LEMMA CompleteFollows ==
  ASSUME IInv, FInv, NEW c \in Clients, NEW t \in Tenants, sp_complete_dr_drill(c, t)
  PROVE  FInv'
  <1>1. PICK d \in DrillIds, s \in {"completed", "failed"} :
          Ran(c, [Opened EXCEPT
            !.drill = IF OwnDrill(t, d) THEN Row(d, [drill[d] EXCEPT !.status = s]) ELSE <<>>,
            !.clears = Row(t, d),
            !.misuse = IF d \in OpenDrills(t) THEN {} ELSE {t}])
    BY DEF sp_complete_dr_drill
  <1> DEFINE w == [Opened EXCEPT
            !.drill = IF OwnDrill(t, d) THEN Row(d, [drill[d] EXCEPT !.status = s]) ELSE <<>>,
            !.clears = Row(t, d),
            !.misuse = IF d \in OpenDrills(t) THEN {} ELSE {t}]
  <1>2. /\ DOMAIN w.drill = IF OwnDrill(t, d) THEN {d} ELSE {}
        /\ OwnDrill(t, d) => w.drill[d] = [drill[d] EXCEPT !.status = s]
        /\ DOMAIN w.flag = {} /\ Claims(w) = {t}
        /\ w.misuse = IF d \in OpenDrills(t) THEN {} ELSE {t}
    BY RowFacts, EmptyTable DEF Opened, NoTxn, Claims
  <1>3. Ran(c, w)
    BY <1>1
  <1> HIDE DEF w
  <1>4. \A e \in DOMAIN w.drill : w.drill[e] \in DrillRow /\ w.drill[e].status # "initiated"
    BY <1>1, <1>2 DEF FInv, RowsAreTyped, DrillRow, OwnDrill
  <1>5. \A e \in DOMAIN w.drill : \A u \in Tenants : w.drill[e] # Open(u)
    BY <1>4 DEF Open
  <1>6. ASSUME NEW u \in Tenants \ (misused \cup w.misuse)
        PROVE  /\ \A e \in OpenDrills(u) : e \in DOMAIN w.drill => u \in Claims(w)
               /\ u \in Claims(w) => ClaimIsProper(u, w)
    <2>1. ASSUME NEW e \in OpenDrills(u), e \in DOMAIN w.drill PROVE u \in Claims(w)
      <3>1. e = d /\ drill[d].tenant = t /\ drill[d] = [tenant |-> u, status |-> "initiated"]
        BY <1>2, <2>1 DEF OwnDrill, OpenDrills
      <3>2. u = t
        BY <3>1
      <3> QED
        BY <1>2, <3>2
    <2>2. ASSUME u \in Claims(w)
          PROVE  ClaimIsProper(u, w)
      <3>1. u = t /\ u \notin DOMAIN w.flag /\ d \in OpenDrills(t)
        BY <1>2, <1>6, <2>2
      <3>2. OwnDrill(t, d)
        BY <3>1 DEF OpenDrills, OwnDrill
      <3>3. OpenDrills(u) \subseteq {d}
        BY <1>6, <3>1 DEF FInv, OneDrill
      <3> QED
        BY <1>2, <3>1, <3>2, <3>3 DEF ClaimIsProper
    <2> QED
      BY <2>1, <2>2
  <1> QED
    BY <1>3, <1>4, <1>5, <1>6, CallFollows

\* The calls that write nothing but the audit.
LEMMA AuditFollows ==
  ASSUME IInv, FInv, NEW c \in Clients, NEW t \in Tenants,
         sp_record_dr_access(c, t) \/ sp_unmask_borrower(c, t) \/ borrowers_masked(c, t)
  PROVE  FInv'
  <1>1. ASSUME NEW w, Ran(c, w), w.drill = <<>>, w.flag = <<>>, w.clears = <<>>
        PROVE  FInv'
    <2>1. DOMAIN w.drill = {} /\ Claims(w) = {}
      BY <1>1, EmptyTable DEF Claims
    <2> QED
      BY <1>1, <2>1, CallFollows
  <1>2. CASE sp_record_dr_access(c, t)
    <2>1. PICK log : Ran(c, [Opened EXCEPT !.audit = log])
      BY <1>2 DEF sp_record_dr_access
    <2> DEFINE w == [Opened EXCEPT !.audit = log]
    <2>2. w.drill = <<>> /\ w.flag = <<>> /\ w.clears = <<>>
      BY DEF Opened, NoTxn
    <2>3. Ran(c, w)
      BY <2>1
    <2> HIDE DEF w
    <2> QED
      BY <1>1, <2>2, <2>3
  <1>3. CASE sp_unmask_borrower(c, t)
    <2>1. PICK log, seen : Ran(c, [Opened EXCEPT !.audit = log, !.shown = seen])
      BY <1>3 DEF sp_unmask_borrower
    <2> DEFINE w == [Opened EXCEPT !.audit = log, !.shown = seen]
    <2>2. w.drill = <<>> /\ w.flag = <<>> /\ w.clears = <<>>
      BY DEF Opened, NoTxn
    <2>3. Ran(c, w)
      BY <2>1
    <2> HIDE DEF w
    <2> QED
      BY <1>1, <2>2, <2>3
  <1>4. CASE borrowers_masked(c, t)
    <2>1. PICK seen : Ran(c, [Opened EXCEPT !.shown = seen])
      BY <1>4 DEF borrowers_masked
    <2> DEFINE w == [Opened EXCEPT !.shown = seen]
    <2>2. w.drill = <<>> /\ w.flag = <<>> /\ w.clears = <<>>
      BY DEF Opened, NoTxn
    <2>3. Ran(c, w)
      BY <2>1
    <2> HIDE DEF w
    <2> QED
      BY <1>1, <2>2, <2>3
  <1> QED
    BY <1>2, <1>3, <1>4

LEMMA ClearFollows ==
  ASSUME IInv, FInv, NEW c \in Clients, clearFlag(c)
  PROVE  FInv'
  <1> DEFINE w == txn'[c]
  <1>1. /\ \A o \in Clients \ {c} : txn'[o] = txn[o]
        /\ DOMAIN w.flag = DOMAIN txn[c].clears \cap DOMAIN flag
        /\ \A t \in DOMAIN w.flag : ~w.flag[t].enabled
        /\ w.clears = <<>> /\ w.drill = txn[c].drill /\ w.misuse = txn[c].misuse
        /\ UNCHANGED <<drill, flag, misused>>
        /\ DOMAIN txn[c].flag = {}
    BY ClearFacts
  <1>2. \A t : OpenDrills(t)' = OpenDrills(t)
    BY <1>1 DEF OpenDrills
  <1>3. \A o \in Clients : txn'[o].drill = txn[o].drill /\ txn'[o].misuse = txn[o].misuse
    BY <1>1
  <1>4. RowsAreTyped'
    BY <1>1, <1>3 DEF FInv, RowsAreTyped, DrillRow
  <1>5. BeginningsAreNew'
    <2> SUFFICES ASSUME NEW o \in Clients, NEW d \in DOMAIN txn'[o].drill, NEW t \in Tenants,
                        txn'[o].drill[d] = Open(t)
                 PROVE  /\ d \notin DOMAIN drill
                        /\ t \in DOMAIN txn'[o].flag
                        /\ txn'[o].flag[t].enabled /\ txn'[o].flag[t].drill = d
      BY <1>1 DEF BeginningsAreNew, Open
    <2>1. /\ d \notin DOMAIN drill /\ t \in DOMAIN txn[o].flag
          /\ txn[o].flag[t].enabled /\ txn[o].flag[t].drill = d
      BY <1>3 DEF FInv, BeginningsAreNew
    <2> QED
      BY <1>1, <2>1
  <1>6. UseIsProper'
    <2> SUFFICES ASSUME NEW o \in Clients, NEW t \in Tenants \ (misused \cup txn[o].misuse)
                 PROVE  /\ \A d \in OpenDrills(t) :
                             d \in DOMAIN txn[o].drill => t \in Claims(txn'[o])
                        /\ t \in Claims(txn'[o]) => ClaimIsProper(t, txn'[o])
      BY <1>1, <1>2, <1>3 DEF UseIsProper, Claims, ClaimIsProper
    <2>1. /\ \A d \in OpenDrills(t) : d \in DOMAIN txn[o].drill => t \in Claims(txn[o])
          /\ t \in Claims(txn[o]) => ClaimIsProper(t, txn[o])
      BY DEF FInv, UseIsProper
    <2>2. CASE o # c
      BY <1>1, <2>1, <2>2
    <2>3. CASE o = c
      <3>1. Claims(w) \subseteq Claims(txn[c])
        BY <1>1, EmptyTable DEF Claims
      <3>2. t \in Claims(txn[c]) => OpenDrills(t) # {} /\ OpenDrills(t) \subseteq DOMAIN w.drill
        BY <1>1, <2>1, <2>3 DEF ClaimIsProper
      <3>3. OpenDrills(t) # {} => t \in DOMAIN flag
        BY DEF FInv, FlagFollowsDrills
      <3>4. t \in Claims(txn[c]) => t \in Claims(w)
        BY <1>1, <3>2, <3>3 DEF Claims
      <3>5. t \in Claims(w) => ClaimIsProper(t, w)
        BY <1>1, <3>1, <3>2 DEF ClaimIsProper
      <3> QED
        BY <1>1, <2>1, <2>3, <3>4, <3>5
    <2> QED
      BY <2>2, <2>3
  <1>7. OneDrill' /\ FlagFollowsDrills'
    BY <1>1, <1>2 DEF FInv, OneDrill, FlagFollowsDrills
  <1> QED
    BY <1>4, <1>5, <1>6, <1>7 DEF FInv

\* Of two transactions that are no misuse one at most claims the flag of a tenant.
LEMMA ClaimsAreExclusive ==
  ASSUME IInv, FInv, NEW c \in Clients, NEW o \in Clients, o # c,
         NEW t \in Tenants \ (misused \cup txn[c].misuse \cup txn[o].misuse),
         t \in Claims(txn[c]), t \in Claims(txn[o])
  PROVE  FALSE
  <1>1. ClaimIsProper(t, txn[c]) /\ ClaimIsProper(t, txn[o])
    BY DEF FInv, UseIsProper
  <1>2. /\ DOMAIN txn[c].drill \cap DOMAIN txn[o].drill = {}
        /\ DOMAIN txn[c].flag \cap DOMAIN txn[o].flag = {}
    BY DEF IInv, RowsAreHeld
  <1> QED
    BY <1>1, <1>2 DEF ClaimIsProper

LEMMA RollbackFollows ==
  ASSUME IInv, FInv, NEW c \in Clients, Rollback(c)
  PROVE  FInv'
  <1>1. /\ txn'[c] = NoTxn
        /\ \A o \in Clients \ {c} : txn'[o] = txn[o]
    BY TxnChanges DEF Rollback, IInv, RowsAreHeld
  <1>2. \A t : OpenDrills(t)' = OpenDrills(t)
    BY DEF Rollback, OpenDrills
  <1>3. UNCHANGED <<drill, flag, misused>>
    BY DEF Rollback
  <1>4. RowsAreTyped' /\ BeginningsAreNew'
    BY <1>1, <1>3, NoTxnFacts DEF FInv, RowsAreTyped, BeginningsAreNew, DrillRow, Open
  <1>5. UseIsProper'
    <2> SUFFICES ASSUME NEW o \in Clients, NEW t \in Tenants \ (misused \cup txn'[o].misuse)
                 PROVE  /\ \A d \in OpenDrills(t) :
                             d \in DOMAIN txn'[o].drill => t \in Claims(txn'[o])
                        /\ t \in Claims(txn'[o]) => ClaimIsProper(t, txn'[o])
      BY <1>2, <1>3 DEF UseIsProper, Claims, ClaimIsProper
    <2> QED
      BY <1>1, NoTxnFacts DEF FInv, UseIsProper
  <1>6. OneDrill' /\ FlagFollowsDrills'
    BY <1>2, <1>3 DEF FInv, OneDrill, FlagFollowsDrills
  <1> QED
    BY <1>4, <1>5, <1>6 DEF FInv

LEMMA CommitFollows ==
  ASSUME IInv, FInv, NEW c \in Clients, Commit(c)
  PROVE  FInv'
  <1>0. Claims(txn[c]) = DOMAIN txn[c].flag
    BY EmptyTable DEF Commit, Claims
  <1>1. /\ txn'[c] = NoTxn
        /\ \A o \in Clients \ {c} : txn'[o] = txn[o]
    BY TxnChanges DEF Commit, IInv, RowsAreHeld
  <1>2. misused' = misused \cup txn[c].misuse
    BY DEF Commit
  <1>3. /\ DOMAIN drill' = DOMAIN drill \cup DOMAIN txn[c].drill
        /\ \A d \in DOMAIN txn[c].drill : drill'[d] = txn[c].drill[d]
        /\ \A d \in DOMAIN drill \ DOMAIN txn[c].drill : drill'[d] = drill[d]
    <2>1. drill' = Upsert(drill, txn[c].drill)
      BY DEF Commit
    <2> QED
      BY <2>1 DEF Upsert
  <1>4. /\ DOMAIN flag' = DOMAIN flag \cup DOMAIN txn[c].flag
        /\ \A t \in DOMAIN txn[c].flag : flag'[t] = txn[c].flag[t]
        /\ \A t \in DOMAIN flag \ DOMAIN txn[c].flag : flag'[t] = flag[t]
    <2>1. flag' = Upsert(flag, txn[c].flag)
      BY DEF Commit
    <2> QED
      BY <2>1 DEF Upsert
  <1>5. ASSUME NEW t
        PROVE  OpenDrills(t)' = (OpenDrills(t) \ DOMAIN txn[c].drill)
                                \cup {d \in DOMAIN txn[c].drill : txn[c].drill[d] = Open(t)}
    BY <1>3 DEF OpenDrills, Open
  <1>6. RowsAreTyped'
    BY <1>1, <1>3, NoTxnFacts DEF FInv, RowsAreTyped, DrillRow
  <1>7. BeginningsAreNew'
    <2> SUFFICES ASSUME NEW o \in Clients, NEW d \in DOMAIN txn'[o].drill, NEW t \in Tenants,
                        txn'[o].drill[d] = Open(t)
                 PROVE  /\ d \notin DOMAIN drill'
                        /\ t \in DOMAIN txn'[o].flag
                        /\ txn'[o].flag[t].enabled /\ txn'[o].flag[t].drill = d
      BY DEF BeginningsAreNew, Open
    <2>1. o # c /\ txn'[o] = txn[o]
      BY <1>1, NoTxnFacts
    <2>2. d \notin DOMAIN txn[c].drill
      BY <2>1 DEF IInv, RowsAreHeld
    <2> QED
      BY <1>3, <2>1, <2>2 DEF FInv, BeginningsAreNew
  \* A tenant whose flag is not written keeps its drills.
  <1>8. ASSUME NEW t \in Tenants \ misused', t \notin DOMAIN txn[c].flag
        PROVE  OpenDrills(t)' = OpenDrills(t)
    <2>1. \A d \in DOMAIN txn[c].drill : txn[c].drill[d] # Open(t)
      BY <1>8 DEF FInv, BeginningsAreNew
    <2>2. \A d \in OpenDrills(t) : d \notin DOMAIN txn[c].drill
      BY <1>0, <1>2, <1>8 DEF FInv, UseIsProper
    <2> QED
      BY <1>5, <2>1, <2>2
  <1>9. UseIsProper'
    <2> SUFFICES ASSUME NEW o \in Clients, NEW t \in Tenants \ (misused' \cup txn'[o].misuse)
                 PROVE  /\ \A d \in OpenDrills(t)' :
                             d \in DOMAIN txn'[o].drill => t \in Claims(txn'[o])
                        /\ t \in Claims(txn'[o]) =>
                             IF t \in DOMAIN txn'[o].flag /\ txn'[o].flag[t].enabled
                             THEN OpenDrills(t)' = {}
                             ELSE /\ OpenDrills(t)' # {}
                                  /\ OpenDrills(t)' \subseteq DOMAIN txn'[o].drill
      BY DEF UseIsProper, Claims, ClaimIsProper
    <2>1. CASE o = c
      BY <1>1, <2>1, NoTxnFacts
    <2>2. CASE o # c
      <3>1. txn'[o] = txn[o] /\ t \in Tenants \ (misused \cup txn[c].misuse \cup txn[o].misuse)
        BY <1>1, <1>2, <2>2
      <3>2. \A d \in OpenDrills(t)' : d \in DOMAIN txn[o].drill => t \in Claims(txn[o])
        <4> SUFFICES ASSUME NEW d \in OpenDrills(t)', d \in DOMAIN txn[o].drill
                     PROVE  t \in Claims(txn[o])
          OBVIOUS
        <4>1. d \notin DOMAIN txn[c].drill
          BY <2>2 DEF IInv, RowsAreHeld
        <4>2. d \in OpenDrills(t)
          BY <1>5, <4>1
        <4> QED
          BY <3>1, <4>2 DEF FInv, UseIsProper
      <3>3. ASSUME t \in Claims(txn[o])
            PROVE  /\ ClaimIsProper(t, txn[o])
                   /\ OpenDrills(t)' = OpenDrills(t)
        <4>1. t \notin DOMAIN txn[c].flag
          BY <1>0, <2>2, <3>1, <3>3, ClaimsAreExclusive
        <4>2. OpenDrills(t)' = OpenDrills(t)
          BY <1>2, <1>8, <3>1, <4>1
        <4> QED
          BY <3>1, <3>3, <4>2 DEF FInv, UseIsProper
      <3> QED
        BY <3>1, <3>2, <3>3 DEF ClaimIsProper
    <2> QED
      BY <2>1, <2>2
  <1>10. ASSUME NEW t \in Tenants \ misused'
         PROVE  /\ \A d, e \in OpenDrills(t)' : d = e
                /\ OpenDrills(t)' # {} <=> t \in DOMAIN flag' /\ flag'[t].enabled
    <2>1. t \in Tenants \ (misused \cup txn[c].misuse)
      BY <1>2
    <2>2. CASE t \in DOMAIN txn[c].flag /\ txn[c].flag[t].enabled
      <3> DEFINE d0 == txn[c].flag[t].drill
      <3>1. OpenDrills(t) = {}
        BY <1>0, <2>1, <2>2 DEF FInv, UseIsProper, ClaimIsProper
      <3>2. d0 \in DOMAIN txn[c].drill /\ txn[c].drill[d0] = Open(t)
        BY <2>2 DEF IInv, FlagsHaveDrills
      <3>3. \A d \in DOMAIN txn[c].drill : txn[c].drill[d] = Open(t) => d = d0
        BY DEF FInv, BeginningsAreNew
      <3>4. OpenDrills(t)' = {d0}
        BY <1>5, <3>1, <3>2, <3>3
      <3> QED
        BY <1>4, <2>2, <3>4
    <2>3. CASE t \in DOMAIN txn[c].flag /\ ~txn[c].flag[t].enabled
      <3>1. OpenDrills(t) \subseteq DOMAIN txn[c].drill
        BY <1>0, <2>1, <2>3 DEF FInv, UseIsProper, ClaimIsProper
      <3>2. \A d \in DOMAIN txn[c].drill : txn[c].drill[d] # Open(t)
        BY <2>3 DEF FInv, BeginningsAreNew
      <3>3. OpenDrills(t)' = {}
        BY <1>5, <3>1, <3>2
      <3> QED
        BY <1>4, <2>3, <3>3
    <2>4. CASE t \notin DOMAIN txn[c].flag
      <3>1. OpenDrills(t)' = OpenDrills(t)
        BY <1>8, <2>4
      <3>2. /\ \A d, e \in OpenDrills(t) : d = e
            /\ OpenDrills(t) # {} <=> t \in DOMAIN flag /\ flag[t].enabled
        BY <2>1 DEF FInv, OneDrill, FlagFollowsDrills
      <3>3. t \in DOMAIN flag' /\ flag'[t].enabled <=> t \in DOMAIN flag /\ flag[t].enabled
        BY <1>4, <2>4
      <3> QED
        BY <3>1, <3>2, <3>3
    <2> QED
      BY <2>2, <2>3, <2>4
  <1>11. OneDrill' /\ FlagFollowsDrills'
    BY <1>10 DEF OneDrill, FlagFollowsDrills
  <1> QED
    BY <1>6, <1>7, <1>9, <1>11 DEF FInv

LEMMA StepFollows == IInv /\ FInv /\ [Next]_vars => FInv'
  <1> SUFFICES ASSUME IInv, FInv, [Next]_vars PROVE FInv'
    OBVIOUS
  <1>1. ASSUME NEW c \in Clients, NEW t \in Tenants,
               \/ sp_begin_dr_drill(c, t) \/ sp_complete_dr_drill(c, t)
               \/ sp_record_dr_access(c, t) \/ sp_unmask_borrower(c, t)
               \/ borrowers_masked(c, t)
        PROVE  FInv'
    BY <1>1, BeginFollows, CompleteFollows, AuditFollows
  <1>2. ASSUME NEW c \in Clients, clearFlag(c) \/ Commit(c) \/ Rollback(c) PROVE FInv'
    BY <1>2, ClearFollows, CommitFollows, RollbackFollows
  <1>3. ASSUME UNCHANGED vars PROVE FInv'
    <2>1. \A t : OpenDrills(t)' = OpenDrills(t)
      BY <1>3 DEF vars, OpenDrills
    <2>2. UNCHANGED <<drill, flag, txn, misused>>
      BY <1>3 DEF vars
    <2>3. RowsAreTyped' /\ BeginningsAreNew'
      BY <2>2 DEF FInv, RowsAreTyped, BeginningsAreNew, DrillRow, Open
    <2>4. UseIsProper' /\ OneDrill' /\ FlagFollowsDrills'
      BY <2>1, <2>2 DEF FInv, UseIsProper, ClaimIsProper, Claims, OneDrill, FlagFollowsDrills
    <2> QED
      BY <2>3, <2>4 DEF FInv
  <1> QED
    BY <1>1, <1>2, <1>3 DEF Next

\* The flag of a tenant is on just while it has a drill under way, however
\* transactions overlap, as long as the tenant begins no second drill and completes no
\* other (sp_begin_dr_drill, sp_complete_dr_drill).
THEOREM FlagFollows == Spec => []FlagFollowsDrills
  <1>1. FInv => FlagFollowsDrills
    BY DEF FInv
  <1> QED
    BY <1>1, InitFollows, StepFollows, InitHolds, StepHolds, PTL DEF Spec
=============================================================================
