-------------------------------- MODULE Tenancy --------------------------------
(***************************************************************************)
(* What depends on the tenant of a database session: the drills and the    *)
(* clear data of borrowers of the migrations m1, in transactions that set  *)
(* the tenant, the roles and the user first and then make one call.        *)
(*                                                                         *)
(* A statement sees what was committed before it began (READ COMMITTED), a *)
(* transaction holds the rows it writes until it ends, and the others see  *)
(* them when it commits.  A call of several statements is one step where   *)
(* only the first of them reads what others write.                         *)
(***************************************************************************)
EXTENDS Naturals, FiniteSets, Sequences

CONSTANTS
  Tenants, Clients, Roles,
  DrillIds,   \* bound on the drills that are begun
  Borrowers,  \* borrower -> tenant
  AuditIds,   \* bound on the rows of access_audit
  Actions,    \* texts for the action of a row
  NoRow

ASSUME TenancyAssumption == NoRow \notin AuditIds

VARIABLES
  drill,     \* dr_drills: id -> [tenant, status]
  flag,      \* feature_flags 'dr.active_database': tenant -> [enabled, drill]
  audit,     \* access_audit: id -> [tenant, action, pii]
  txn,       \* the transaction of each client
  misused,   \* history: the tenants whose drills overlapped, or that completed a
             \* drill that was not theirs or not open
  unmasked   \* history: the clear rows that committed transactions were shown, and
             \* the row of the audit that was made for each, if any

vars == <<drill, flag, audit, txn, misused, unmasked>>

NoTxn ==
  [open |-> FALSE, drill |-> <<>>, flag |-> <<>>, audit |-> <<>>, shown |-> {},
   misuse |-> {},
   clears |-> <<>>]  \* what its second statement will do: tenant -> drill

Init ==
  /\ drill = <<>> /\ flag = <<>> /\ audit = <<>> /\ misused = {} /\ unmasked = {}
  /\ txn = [c \in Clients |-> NoTxn]

-----------------------------------------------------------------------------
(* Transactions *)

\* A row by its key, and a table with rows inserted or overwritten.
Row(key, value) == [k \in {key} |-> value]

Upsert(table, new) ==
  [k \in DOMAIN table \cup DOMAIN new |-> IF k \in DOMAIN new THEN new[k] ELSE table[k]]

\* A row that is written waits for the transactions that have written it.
FlagIsFree(t) ==
  \A o \in Clients : t \notin DOMAIN txn[o].flag

DrillIsFree(d) ==
  \A o \in Clients : d \notin DOMAIN txn[o].drill

Opened == [NoTxn EXCEPT !.open = TRUE]

AuditIsFree(a) ==
  \A o \in Clients : a \notin DOMAIN txn[o].audit

\* begin, the settings, and a call that returns, with what it has written so far.
\* After a call that raises, the transaction can only be rolled back and has had no
\* effect.
Ran(c, written) ==
  /\ txn[c] = NoTxn
  /\ txn' = [txn EXCEPT ![c] = written]
  /\ UNCHANGED <<drill, flag, audit, misused, unmasked>>

Commit(c) ==
  /\ txn[c].open /\ txn[c].clears = <<>>
  /\ drill' = Upsert(drill, txn[c].drill)
  /\ flag' = Upsert(flag, txn[c].flag)
  /\ audit' = Upsert(audit, txn[c].audit)
  /\ misused' = misused \cup txn[c].misuse
  /\ unmasked' = unmasked \cup txn[c].shown
  /\ txn' = [txn EXCEPT ![c] = NoTxn]

\* rollback, a lost connection or a restart of the database.
Rollback(c) ==
  /\ txn[c].open
  /\ txn' = [txn EXCEPT ![c] = NoTxn]
  /\ UNCHANGED <<drill, flag, audit, misused, unmasked>>

-----------------------------------------------------------------------------
(* 005-pitr-scaffolding.sql *)

OpenDrills(t) == {d \in DOMAIN drill : drill[d] = [tenant |-> t, status |-> "initiated"]}

\* Mutant: on conflict do nothing.
FlagOnMutant(t, d) == IF t \in DOMAIN flag THEN <<>> ELSE Row(t, [enabled |-> TRUE, drill |-> d])

\* The flag is inserted, or overwritten on conflict.
FlagOn(t, d) == Row(t, [enabled |-> TRUE, drill |-> d])

sp_begin_dr_drill(c, t) ==
  /\ FlagIsFree(t)
  /\ \E d \in DrillIds \ DOMAIN drill :
       /\ DrillIsFree(d)
       /\ Ran(c, [Opened EXCEPT !.drill = Row(d, [tenant |-> t, status |-> "initiated"]),
                                !.flag = FlagOn(t, d),
                                !.misuse = IF OpenDrills(t) = {} THEN {} ELSE {t}])

\* Mutant: the tenant is missing in the update of dr_drills.
OwnDrillMutant(t, d) == d \in DOMAIN drill

\* where id = p_dr_drill_id and tenant_id = app.current_tenant()
OwnDrill(t, d) == d \in DOMAIN drill /\ drill[d].tenant = t

\* The first statement, which need not find a row.
sp_complete_dr_drill(c, t) ==
  \E d \in DrillIds, s \in {"completed", "failed"} :
    /\ OwnDrill(t, d) => DrillIsFree(d)
    /\ Ran(c, [Opened EXCEPT
         !.drill = IF OwnDrill(t, d) THEN Row(d, [drill[d] EXCEPT !.status = s]) ELSE <<>>,
         !.clears = Row(t, d),
         !.misuse = IF d \in OpenDrills(t) THEN {} ELSE {t}])

\* A flag that is there is cleared, and names the drill that was passed.
FlagOff(clears) ==
  [t \in DOMAIN clears \cap DOMAIN flag |-> [enabled |-> FALSE, drill |-> clears[t]]]

\* The second statement of sp_complete_dr_drill, which looks neither at the drill nor at
\* what the first one has done.
clearFlag(c) ==
  /\ txn[c].clears # <<>>
  /\ \A t \in DOMAIN FlagOff(txn[c].clears) : FlagIsFree(t)
  /\ txn' = [txn EXCEPT ![c] =
                [@ EXCEPT !.flag = FlagOff(txn[c].clears), !.clears = <<>>]]
  /\ UNCHANGED <<drill, flag, audit, misused, unmasked>>

AuditRow(t, action, pii) == [tenant |-> t, action |-> action, pii |-> pii]

\* The action is the text of the caller; the list of fields is empty.
sp_record_dr_access(c, t) ==
  \E a \in AuditIds \ DOMAIN audit, action \in Actions :
    /\ AuditIsFree(a)
    /\ Ran(c, [Opened EXCEPT !.audit = Row(a, AuditRow(t, action, FALSE))])

-----------------------------------------------------------------------------
(* 003-masking.sql *)

UnmaskingRoles == {"role_admin", "role_compliance", "role_underwriter"}

\* Mutant: the roles of a session are not looked at.
MayUnmaskMutant(t, role, b) == t = Borrowers[b]

MayUnmask(t, role, b) == role \in UnmaskingRoles /\ t = Borrowers[b]

Shown(t, role, b, row) == [tenant |-> t, role |-> role, borrower |-> b, row |-> row]

\* sp_unmask_borrower, and sp_unmask_co_borrower in the same way: the row of the audit
\* lists the fields, and the borrower is returned before the transaction has ended.
sp_unmask_borrower(c, t) ==
  \E b \in DOMAIN Borrowers, role \in Roles, a \in AuditIds \ DOMAIN audit :
    /\ MayUnmask(t, role, b) /\ AuditIsFree(a)
    /\ Ran(c, [Opened EXCEPT !.audit = Row(a, AuditRow(t, "unmask", TRUE)),
                             !.shown = {Shown(t, role, b, a)}])

\* The views, which mask no column for these roles and write nothing.  (One column, the
\* bank_account_number, borrowers_masked masks for nobody; it is left out.)
ClearRoles == {"role_admin", "role_compliance"}

borrowers_masked(c, t) ==
  \E b \in DOMAIN Borrowers, role \in Roles \cap ClearRoles :
    /\ t = Borrowers[b]
    /\ Ran(c, [Opened EXCEPT !.shown = {Shown(t, role, b, NoRow)}])

-----------------------------------------------------------------------------
Next ==
  \/ \E c \in Clients, t \in Tenants :
       \/ sp_begin_dr_drill(c, t) \/ sp_complete_dr_drill(c, t)
       \/ sp_record_dr_access(c, t) \/ sp_unmask_borrower(c, t) \/ borrowers_masked(c, t)
  \/ \E c \in Clients : clearFlag(c) \/ Commit(c) \/ Rollback(c)

Spec == Init /\ [][Next]_vars

-----------------------------------------------------------------------------
\* The flag that is on names a drill of its tenant that is under way, whatever other
\* tenants complete and whichever transactions are rolled back.
FlagNamesOpenDrill ==
  \A t \in DOMAIN flag : flag[t].enabled => flag[t].drill \in OpenDrills(t)

\* While a tenant has a drill under way its flag is on, and only then, as long as the
\* tenant runs one drill at a time and completes no other.
FlagFollowsDrills ==
  \A t \in Tenants \ misused :
    OpenDrills(t) # {} <=> t \in DOMAIN flag /\ flag[t].enabled

\* What the views mask of a borrower (ssn, dob, email and phone) is shown to a session
\* that they mask it for, an underwriter's, only with a row of the audit of its own that
\* lists the fields, one for each unmasking that was committed; admin and compliance may
\* also see it in the views, which leave no row; a tenant sees its own borrowers only.
\* Every row that lists fields, unlike one that is only called "unmask", stands for such
\* an unmasking.
UnmaskingIsAudited ==
  /\ \A x \in unmasked :
       /\ Borrowers[x.borrower] = x.tenant
       /\ IF x.row = NoRow THEN x.role \in {"role_admin", "role_compliance"}
          ELSE /\ x.role \in UnmaskingRoles
               /\ x.row \in DOMAIN audit
               /\ audit[x.row] = AuditRow(x.tenant, "unmask", TRUE)
  /\ \A x, y \in unmasked : x.row = y.row /\ x.row # NoRow => x = y
  /\ \A a \in DOMAIN audit : audit[a].pii => \E x \in unmasked : x.row = a
=============================================================================
