---------------------------- MODULE BudgetLedger ----------------------------
(***************************************************************************)
(* The inference-budget ledger (experiments/lcb_mmh_online/budget.py): one *)
(* SQLite table of reservations that several processes open, reserve from, *)
(* commit to and release.  Every method is one BEGIN IMMEDIATE             *)
(* transaction, so it is one action here; a refused call (BudgetExceeded,  *)
(* BudgetViolation, a reservation already closed) changes nothing and is a *)
(* stutter.  A client is a process; what it remembers of the ledger (its   *)
(* own memory fraction, its reservation ids) dies with it.                 *)
(*                                                                         *)
(* Amounts are whole units; call ids, metadata and times are left out.     *)
(***************************************************************************)
EXTENDS Integers, FiniteSets, FiniteSetsExt, Functions

CONSTANTS
  Client,          \* processes that open the ledger
  Entry,           \* reservation ids
  Category,        \* categories of calls
  MemoryCategory,  \* BudgetLedger.MEMORY_CATEGORIES
  CategoryCap,     \* category_caps: a function from some categories to amounts
  Allocations,     \* memory allocations (total * fraction) an opening may configure
  TotalBudget,
  Requests,        \* amounts a call may reserve
  Usages,          \* amounts a call may turn out to use
  None

ASSUME LedgerAssumption ==
  /\ TotalBudget \in Nat \ {0}
  /\ MemoryCategory \subseteq Category
  /\ DOMAIN CategoryCap \subseteq Category
  /\ CategoryCap \in [DOMAIN CategoryCap -> Nat]
  /\ Allocations \subseteq 0..TotalBudget /\ Allocations # {}
  /\ Requests \subseteq Nat /\ Usages \subseteq Nat

VARIABLES
  entries,     \* table budget_entries: id -> row, or None
  allocation,  \* the allocation each client works with, or None while closed
  known        \* the reservation ids each client remembers

ledgerVars == <<entries, allocation, known>>

Row ==
  [category : Category, amount : 0..TotalBudget,
   status : {"reserved", "committed", "released"}]

ASSUME NoneAssumption == None \notin Row

\* The rows in one of the statuses and of one of the categories.
RowsOf(statuses, categories) ==
  {e \in Entry : /\ entries[e] # None
                 /\ entries[e].status \in statuses
                 /\ entries[e].category \in categories}

amounts == [e \in Entry |-> IF entries[e] = None THEN 0 ELSE entries[e].amount]

SumFor(statuses, categories) == SumFunctionOnSet(amounts, RowsOf(statuses, categories))

Counted == {"reserved", "committed"}

MemoryUsed == SumFor(Counted, MemoryCategory)

\* Faulty: only committed rows are counted against the caps.
CanReserveUnspent(c, cat, n) ==
  /\ SumFor({"committed"}, Category) + n <= TotalBudget
  /\ cat \in DOMAIN CategoryCap => SumFor({"committed"}, {cat}) + n <= CategoryCap[cat]
  /\ cat \in MemoryCategory => SumFor({"committed"}, MemoryCategory) + n <= allocation[c]

CanReserve(c, cat, n) ==
  /\ SumFor(Counted, Category) + n <= TotalBudget
  /\ cat \in DOMAIN CategoryCap => SumFor(Counted, {cat}) + n <= CategoryCap[cat]
  /\ cat \in MemoryCategory => MemoryUsed + n <= allocation[c]

LedgerInit ==
  /\ entries = [e \in Entry |-> None]
  /\ allocation = [c \in Client |-> None]
  /\ known = [c \in Client |-> {}]

\* BudgetLedger(path, total, memory_fraction=...): an opening with another
\* total is refused; the memory fraction is recorded once and never read, so
\* each process works with the one it was given.
Open(c, m) ==
  /\ allocation[c] = None
  /\ allocation' = [allocation EXCEPT ![c] = m]
  /\ UNCHANGED <<entries, known>>

Reserve(c, cat, n, e) ==
  /\ allocation[c] # None
  /\ CanReserve(c, cat, n)
  /\ entries[e] = None
  /\ entries' = [entries EXCEPT ![e] = [category |-> cat, amount |-> n, status |-> "reserved"]]
  /\ known' = [known EXCEPT ![c] = @ \cup {e}]
  /\ UNCHANGED allocation

\* Faulty: a remembered reservation can be closed again.
ClosableAgain(c, e) == e \in known[c]

\* A reservation is closed once: a second commit or release finds it closed.
Closable(c, e) == e \in known[c] /\ entries[e].status = "reserved"

Commit(c, e, actual) ==
  /\ Closable(c, e)
  /\ actual <= entries[e].amount
  /\ entries' = [entries EXCEPT ![e].amount = actual, ![e].status = "committed"]
  /\ UNCHANGED <<allocation, known>>

Release(c, e) ==
  /\ Closable(c, e)
  /\ entries' = [entries EXCEPT ![e].status = "released"]
  /\ UNCHANGED <<allocation, known>>

\* The process ends, its reservations still open.
Close(c) ==
  /\ allocation[c] # None
  /\ allocation' = [allocation EXCEPT ![c] = None]
  /\ known' = [known EXCEPT ![c] = {}]
  /\ UNCHANGED entries

LedgerNext ==
  \E c \in Client :
    \/ \E m \in Allocations : Open(c, m)
    \/ \E cat \in Category, n \in Requests, e \in Entry : Reserve(c, cat, n, e)
    \/ \E e \in Entry, n \in Usages : Commit(c, e, n)
    \/ \E e \in Entry : Release(c, e)
    \/ Close(c)

LedgerSpec == LedgerInit /\ [][LedgerNext]_ledgerVars

-----------------------------------------------------------------------------
(* Properties *)

\* Rows, allocations and remembered ids are well formed; a client remembers
\* only reservations the table holds, so commit and release never meet an
\* unknown id (budget.py:243, :271).
LedgerTypeOK ==
  /\ entries \in [Entry -> Row \cup {None}]
  /\ allocation \in [Client -> Allocations \cup {None}]
  /\ known \in [Client -> SUBSET {e \in Entry : entries[e] # None}]

\* However many processes reserve at once, what is spent and in flight stays
\* within the total, within every category's cap and, for memory calls, within
\* the largest allocation an opening configures (budget.py:3-6, _can_reserve).
WithinCaps ==
  /\ SumFor(Counted, Category) <= TotalBudget
  /\ \A cat \in DOMAIN CategoryCap : SumFor(Counted, {cat}) <= CategoryCap[cat]
  /\ MemoryUsed <= Max(Allocations)

\* A closed reservation is final: later commits, releases and crashes neither
\* change its amount nor free it (budget.py:245, :273).
ChargesFinal ==
  [][\A e \in Entry : entries[e] # None /\ entries[e].status # "reserved"
                         => entries'[e] = entries[e]]_ledgerVars

\* The ledger, every category together, is a budget: Reserve holds, Commit
\* and Release settle, and opening and closing are stutters.
Promise ==
  INSTANCE Budget WITH spent <- SumFor({"committed"}, Category),
                       held <- SumFor({"reserved"}, Category)
ImplementsBudget == Promise!Spec

=============================================================================
