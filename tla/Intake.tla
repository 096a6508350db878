------------------------------- MODULE Intake -------------------------------
(***************************************************************************)
(* How cases come to be: an ingestion loop in each replica of the case     *)
(* service reads the overdue invoices from the ERP and opens a case for    *)
(* those that have none, while people open cases of their own and credits  *)
(* change what is open.                                                    *)
(*                                                                         *)
(*   services/case/recoup_case/{ingestion,service,routes}.py               *)
(*                                                                         *)
(* Opening a case is CaseService's, invoices are MockErp's.  The log of    *)
(* passes (ingestion_runs) is left out.                                    *)
(***************************************************************************)
EXTENDS CaseService, MockErp

CONSTANTS Loops,      \* requests that are ingestion loops
          Limit,      \* ingest_max_per_run
          MaxFaults   \* bound: passes that fail for want of a database or an ERP

ASSUME IntakeAssumption ==
  /\ Loops \subseteq Requests /\ Bills = Invoices
  /\ Limit \in Nat \ {0} /\ MaxFaults \in Nat

VARIABLES pass,    \* the pass each loop is in
          faults

intakeVars == <<vars, erpVars, pass, faults>>
cases == <<vars, faults>>

Rest == [phase |-> "resting", todo |-> <<>>]

IntakeInit == Init /\ ErpInit /\ pass = [r \in Loops |-> Rest] /\ faults = 0

To(r, phase, todo) == pass' = [pass EXCEPT ![r] = [phase |-> phase, todo |-> todo]]
At(r, phase) == pass[r].phase = phase
Foremost(r) == Head(pass[r].todo)

\* run_once: once a minute
Lists(r) ==
  /\ At(r, "resting")
  /\ To(r, "scanning", list_invoices(Limit))
  /\ UNCHANGED <<erpVars, cases>>

\* find_case_for_invoice
Skips(r) ==
  /\ At(r, "scanning") /\ pass[r].todo # <<>>
  /\ claim[Foremost(r)] # None
  /\ To(r, "scanning", Tail(pass[r].todo))
  /\ UNCHANGED <<erpVars, cases>>

\* It has none: the customer's name is asked for, and done without.
Wants(r) ==
  /\ At(r, "scanning") /\ pass[r].todo # <<>>
  /\ claim[Foremost(r)] = None
  /\ To(r, "naming", pass[r].todo)
  /\ UNCHANGED <<erpVars, cases>>

Begins(r) ==
  /\ At(r, "naming")
  /\ BeginCreate(r, {Foremost(r)})
  /\ To(r, "creating", pass[r].todo)
  /\ UNCHANGED <<erpVars, faults>>

Opens(r) ==
  /\ At(r, "creating")
  /\ \E c \in Cases : create_case(r, c)
  /\ To(r, "scanning", Tail(pass[r].todo))
  /\ UNCHANGED <<erpVars, faults>>

Finishes(r) ==
  /\ At(r, "scanning") /\ pass[r].todo = <<>>
  /\ To(r, "resting", <<>>)
  /\ UNCHANGED <<erpVars, cases>>

\* Another case took the invoice meanwhile.
Beaten(r) ==
  \/ At(r, "naming") /\ claim[Foremost(r)] # None
  \/ At(r, "creating") /\ ~ClaimsInserted(req[r].refs)

\* An exception ends the pass, whatever is left of it: _loop suppresses it.
LoopEnds(r) == To(r, "stopped", <<>>) /\ Done(r) /\ UNCHANGED <<row, erpVars>>
Aborted(r) == To(r, "resting", <<>>) /\ Done(r) /\ UNCHANGED <<row, erpVars>>
Stops(r) == Beaten(r) /\ Aborted(r) /\ UNCHANGED faults
Fails(r) ==
  /\ ~At(r, "resting")
  /\ faults < MaxFaults /\ faults' = faults + 1
  /\ Aborted(r)

LoopStep(r) ==
  \/ Lists(r) \/ Skips(r) \/ Wants(r) \/ Begins(r) \/ Opens(r) \/ Finishes(r) \/ Stops(r)

\* POST /internal/cases
Person(r) ==
  /\ \/ \E S \in (SUBSET Invoices) \ {{}} : BeginCreate(r, S)
     \/ \E c \in Cases : create_case(r, c)
     \/ Abort(r)
  /\ UNCHANGED <<erpVars, pass, faults>>

IntakeNext ==
  \/ \E r \in Loops : LoopStep(r) \/ Fails(r)
  \/ \E r \in Requests \ Loops : Person(r)
  \/ ErpNext /\ UNCHANGED <<cases, pass>>

IntakeSpec ==
  /\ IntakeInit /\ [][IntakeNext]_intakeVars
  /\ \A r \in Loops : WF_intakeVars(LoopStep(r))

-----------------------------------------------------------------------------
(* Properties *)

Listed(i) == \E n \in DOMAIN list_invoices(Limit) : list_invoices(Limit)[n] = i

\* An invoice that stays among those a pass is given gets a case, whatever
\* fails, and whoever opens cases in the way of the loop.
OverdueGetsCase ==
  \A i \in Invoices : <>[]Listed(i) => <>(claim[i] # None)
=============================================================================
