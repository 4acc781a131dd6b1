------------------------------ MODULE Supervised ------------------------------
(***************************************************************************)
(* cdr_parser_zh.sh around CdrParser: a supervisor looks with ps and grep  *)
(* for another one, exits with status 5 if it sees one, and otherwise runs *)
(* cdr_parser.sh for ever.  A worker of CdrParser is a slot a supervisor   *)
(* and its script run in.                                                  *)
(*                                                                         *)
(* ps reads one process after another while processes come and go, so the  *)
(* guard is a walk over the other instances, not one atomic test.          *)
(***************************************************************************)
EXTENDS CdrParser

CONSTANTS
  MaxSlips,   \* how often a guard may overlook an instance
  MaxStrays   \* how many scripts may run outside any supervisor's loop

ASSUME SupervisedAssumption == MaxSlips \in Nat /\ MaxStrays \in Nat

VARIABLES
  sup,        \* per worker: what runs in the slot, see SupTypeOK
  unseen,     \* per worker: the instances its ps has not come to yet
  found,      \* per worker: its guard counted a process
  slips,      \* how often a guard has overlooked an instance
  strays      \* how many scripts have run outside a supervisor's loop

supVars == <<sup, unseen, found, slips, strays>>

\* No script runs: cdr_parser.sh has ended or not begun.
Between(w) == pc[w] = "pass" /\ todo[w] = {}

\* "off": nothing; "look": cdr_parser_zh.sh counts processes; "loop": it runs
\* cdr_parser.sh again and again; "orphan": cdr_parser.sh without supervisor.
\* Only a loop and an orphan have a script; a loop's guard is behind it.
SupTypeOK ==
  /\ sup \in [Workers -> {"off", "look", "loop", "orphan"}]
  /\ unseen \in [Workers -> SUBSET Workers]
  /\ found \in [Workers -> BOOLEAN]
  /\ slips \in 0..MaxSlips
  /\ strays \in 0..MaxStrays
  /\ \A w \in Workers : sup[w] \in {"off", "look"} => Between(w)
  /\ \A w \in Workers : sup[w] = "loop" => unseen[w] = {} /\ ~found[w]

SupInit ==
  /\ Init
  /\ sup = [w \in Workers |-> "off"]
  /\ unseen = [w \in Workers |-> {}]
  /\ found = [w \in Workers |-> FALSE]
  /\ slips = 0
  /\ strays = 0

Become(w, what) == sup' = [sup EXCEPT ![w] = what]

-------------------------------------------------------------------------------
(* The guard *)

\* Mutant: an instance shows only once it is past its guard, as with a pid
\* file written there.
LoopsOnly(v) == sup[v] = "loop"

\* The processes whose line in ps's output has the name cdr_parser_zh.sh; that
\* of cdr_parser.sh has not.
Named(v) == sup[v] \in {"look", "loop"}

Start(w) ==
  /\ sup[w] = "off"
  /\ Become(w, "look")
  /\ unseen' = [unseen EXCEPT ![w] = Workers \ {w}]
  /\ found' = [found EXCEPT ![w] = FALSE]
  /\ UNCHANGED <<vars, slips, strays>>

\* grep -v "$$.*name" is for the guard's own line, but drops another one's too
\* if the digits of $$ occur in it.
LookAt(w) ==
  /\ sup[w] = "look"
  /\ \E v \in unseen[w] :
       /\ unseen' = [unseen EXCEPT ![w] = @ \ {v}]
       /\ \/ found' = [found EXCEPT ![w] = @ \/ Named(v)] /\ UNCHANGED slips
          \/ /\ Named(v)
             /\ slips < MaxSlips
             /\ slips' = slips + 1
             /\ UNCHANGED found
  /\ UNCHANGED <<vars, sup, strays>>

\* Something else has the name in its line: an editor, or a process the guard
\* itself forked for its pipeline and that has not become ps or grep yet.
SeeAnother(w) ==
  /\ sup[w] = "look"
  /\ found' = [found EXCEPT ![w] = TRUE]
  /\ UNCHANGED <<vars, sup, unseen, slips, strays>>

\* Mutant: the error is printed, but exit 5 is missing.
ProceedAnyway(w) ==
  /\ sup[w] = "look"
  /\ unseen[w] = {}
  /\ Become(w, "loop")
  /\ found' = [found EXCEPT ![w] = FALSE]
  /\ UNCHANGED <<vars, unseen, slips, strays>>

Proceed(w) ==
  /\ sup[w] = "look"
  /\ unseen[w] = {}
  /\ ~found[w]
  /\ Become(w, "loop")
  /\ UNCHANGED <<vars, unseen, found, slips, strays>>

\* exit 5
Refuse(w) ==
  /\ sup[w] = "look"
  /\ unseen[w] = {}
  /\ found[w]
  /\ Become(w, "off")
  /\ UNCHANGED <<vars, unseen, found, slips, strays>>

-------------------------------------------------------------------------------
(* Scripts with and without a supervisor *)

\* Mutant: the script is taken to die with its supervisor.
KillBoth(w) ==
  /\ sup[w] = "loop"
  /\ Become(w, "off")
  /\ UNCHANGED <<vars, unseen, found, slips, strays>>

Stray == strays < MaxStrays /\ strays' = strays + 1

\* A signal ends the supervisor; a script it was waiting for goes on.
KillSupervisor(w) ==
  /\ sup[w] = "loop"
  /\ IF Between(w) THEN Become(w, "off") /\ UNCHANGED strays
                   ELSE Become(w, "orphan") /\ Stray
  /\ UNCHANGED <<vars, unseen, found, slips>>

\* Nothing keeps anybody from starting cdr_parser.sh itself.
RunByHand(w) ==
  /\ sup[w] = "off"
  /\ NewPass(w)
  /\ Become(w, "orphan")
  /\ Stray
  /\ UNCHANGED <<unseen, found, slips>>

\* cdr_parser.sh ends after one pass.
OrphanEnds(w) ==
  /\ sup[w] = "orphan"
  /\ Between(w)
  /\ Become(w, "off")
  /\ UNCHANGED <<vars, unseen, found, slips, strays>>

Work(w) ==
  /\ sup[w] = "loop" \/ (sup[w] = "orphan" /\ ~Between(w))
  /\ Step(w) \/ Fault(w)
  /\ UNCHANGED supVars

RebootAll ==
  /\ Reboot
  /\ sup' = [w \in Workers |-> "off"]
  /\ unseen' = [w \in Workers |-> {}]
  /\ found' = [w \in Workers |-> FALSE]
  /\ UNCHANGED <<slips, strays>>

Outside ==
  /\ LateCommit \/ LateAbort \/ \E f \in Files : Arrive(f) \/ Complete(f)
  /\ UNCHANGED supVars

-------------------------------------------------------------------------------
Guard(w) == Start(w) \/ LookAt(w) \/ SeeAnother(w) \/ Proceed(w) \/ Refuse(w)

Script(w) == KillSupervisor(w) \/ RunByHand(w) \/ OrphanEnds(w) \/ Work(w)

SupNext ==
  \/ \E w \in Workers : Guard(w) \/ Script(w)
  \/ RebootAll \/ Outside

SupSpec == SupInit /\ [][SupNext]_<<vars, supVars>>

-------------------------------------------------------------------------------
(* Properties *)

\* The slots in which cdr_parser.sh runs, or will be run again.
Scripts == {w \in Workers : sup[w] \in {"loop", "orphan"}}

\* However many supervisors start at once, are killed and started again: as long as
\* no guard overlooks an instance that is there, one script is at work, and one
\* more for each that was started by hand or that a dead supervisor left, for
\* which no guard looks.
OneScript ==
  slips = 0 => Cardinality(Scripts) <= 1 + strays

\* What the guard is for: scripts that meet treat a busy semaphore as success
\* and remove the file.  With every script under a supervisor whose guard saw
\* what was there, no file is removed that the database does not hold, over any
\* number of supervisors that come, go and start at the same time, but for those
\* that a killed parser or a failed sem_open cost a lone script, too.
SupervisedLosesNothing ==
  slips = 0 /\ strays = 0 => NothingLost
===============================================================================
