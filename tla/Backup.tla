-------------------------------- MODULE Backup --------------------------------
(***************************************************************************)
(* cdr_backup_last_day_cdrs.sh: of the directory arh it packs the files of *)
(* the day that lies Age days back into an archive, removes them, and lets *)
(* rsync move all the archives that lie there to the backup server.  It    *)
(* looks at no command's status.                                           *)
(*                                                                         *)
(* Several runs may be at work: nothing in the script keeps cron or a      *)
(* person from starting it once more.                                      *)
(***************************************************************************)
EXTENDS Naturals

CONSTANTS
  Runs,       \* processes that may run the script
  Files,      \* the names of CDR files
  DayOf,      \* [Files -> Days]: the day in a file's name
  Age,        \* 41
  LastDay     \* where the calendar ends

Days == 1 .. LastDay

ASSUME BackupAssumption ==
  /\ DayOf \in [Files -> Days]
  /\ Age \in Nat /\ LastDay \in Nat \ {0}

VARIABLES
  today,
  arrived,    \* files that were ever put into arh, by whomever
  arh,        \* files that lie there
  local,      \* days whose archive lies there
  tgz,        \* per day: the files in this archive that can be unpacked
  remote,     \* per day: likewise of the archive on the backup server
  pc, data,   \* per run: its next command, its day
  names,      \* per run: what the shell gave tar for CDR_$data*sgw-2*
  todo,       \* per run: archives its rsync has still to move
  cleared,    \* days whose files a run has removed
  odd         \* which of Oddities have happened

vars == <<today, arrived, arh, local, tgz, remote, pc, data, names, todo, cleared, odd>>

Oddities ==
  { "tar",      \* tar fails: disk full, a file it may not read
    "again",    \* a run for a day whose files are removed already
    "overlap",  \* a run starts while another one is at work
    "between" } \* a file arrives while a run is at work on its day

\* Types; archives hold files of their day.
TypeOK ==
  /\ today \in 1 .. LastDay + Age
  /\ arrived \subseteq Files /\ arh \subseteq arrived
  /\ local \subseteq Days
  /\ \A a \in {tgz, remote} :
       /\ a \in [Days -> SUBSET Files]
       /\ \A d \in Days : \A f \in a[d] : f \in arrived /\ DayOf[f] = d
  /\ pc \in [Runs -> {"off", "tar", "write", "rm", "rsync", "send"}]
  /\ data \in [Runs -> Days]
  /\ names \in [Runs -> SUBSET arrived]
  /\ \A r \in Runs : pc[r] # "write" => names[r] = {}
  /\ \A r \in Runs : \A f \in names[r] : DayOf[f] = data[r]
  /\ todo \in [Runs -> SUBSET Days]
  /\ cleared \subseteq Days
  /\ odd \subseteq Oddities

Init ==
  /\ today = 1
  /\ arrived = {} /\ arh = {}
  /\ local = {}
  /\ tgz = [d \in Days |-> {}] /\ remote = [d \in Days |-> {}]
  /\ pc = [r \in Runs |-> "off"] /\ data = [r \in Runs |-> 1]
  /\ names = [r \in Runs |-> {}] /\ todo = [r \in Runs |-> {}]
  /\ cleared = {} /\ odd = {}

Goto(r, step) == pc' = [pc EXCEPT ![r] = step]

\* CDR_$data*sgw-2*
OfDay(d) == {f \in arh : DayOf[f] = d}

-------------------------------------------------------------------------------
(* Around the script *)

NextDay ==
  /\ today < LastDay + Age
  /\ today' = today + 1
  /\ UNCHANGED <<arrived, arh, local, tgz, remote, pc, data, names, todo, cleared, odd>>

Arrive(f) ==
  /\ f \notin arrived /\ DayOf[f] <= today
  /\ arrived' = arrived \union {f}
  /\ arh' = arh \union {f}
  /\ odd' = odd \union {k \in {"between"} : \E r \in Runs : pc[r] # "off" /\ data[r] = DayOf[f]}
  /\ UNCHANGED <<today, local, tgz, remote, pc, data, names, todo, cleared>>

-------------------------------------------------------------------------------
(* The script *)

\* The process is gone.
Off(r) ==
  /\ Goto(r, "off")
  /\ data' = [data EXCEPT ![r] = 1]
  /\ names' = [names EXCEPT ![r] = {}] /\ todo' = [todo EXCEPT ![r] = {}]

Start(r) ==
  /\ pc[r] = "off"
  /\ today > Age
  /\ Goto(r, "tar")
  /\ data' = [data EXCEPT ![r] = today - Age]
  /\ odd' = odd \union {k \in {"again"} : today - Age \in cleared}
                \union {k \in {"overlap"} : \E q \in Runs : pc[q] # "off"}
  /\ UNCHANGED <<today, arrived, arh, local, tgz, remote, names, todo, cleared>>

\* Mutant: the pattern without the day.
TarAll(r) ==
  /\ pc[r] = "tar"
  /\ names' = [names EXCEPT ![r] = arh]
  /\ local' = local \union {data[r]}
  /\ tgz' = [tgz EXCEPT ![data[r]] = {}]
  /\ Goto(r, "write")
  /\ UNCHANGED <<today, arrived, arh, remote, data, todo, cleared, odd>>

\* tar opens the archive, an older one of this name is lost.  Without a file
\* the pattern itself is the name of one that tar does not find.
Tar(r) ==
  /\ pc[r] = "tar"
  /\ names' = [names EXCEPT ![r] = OfDay(data[r])]
  /\ local' = local \union {data[r]}
  /\ tgz' = [tgz EXCEPT ![data[r]] = {}]
  /\ Goto(r, "write")
  /\ UNCHANGED <<today, arrived, arh, remote, data, todo, cleared, odd>>

\* Mutant: no rm after tar.
TarEndsAndKeeps(r) ==
  /\ pc[r] = "write"
  /\ \E packed \in SUBSET (names[r] \intersect arh) :
       /\ odd' = odd \union {k \in {"tar"} : packed # names[r]}
       /\ tgz' = IF data[r] \in local THEN [tgz EXCEPT ![data[r]] = packed] ELSE tgz
  /\ Goto(r, "rsync")
  /\ names' = [names EXCEPT ![r] = {}]
  /\ UNCHANGED <<today, arrived, arh, local, remote, data, todo, cleared>>

\* What another run's rsync has removed meanwhile is written in vain.
TarEnds(r) ==
  /\ pc[r] = "write"
  /\ \E packed \in SUBSET (names[r] \intersect arh) :
       /\ odd' = odd \union {k \in {"tar"} : packed # names[r]}
       /\ tgz' = IF data[r] \in local THEN [tgz EXCEPT ![data[r]] = packed] ELSE tgz
  /\ Goto(r, "rm")
  /\ names' = [names EXCEPT ![r] = {}]
  /\ UNCHANGED <<today, arrived, arh, local, remote, data, todo, cleared>>

\* Mutant: rm's pattern without the day.
RmAll(r) ==
  /\ pc[r] = "rm"
  /\ \E gone \in SUBSET arh : arh' = arh \ gone
  /\ cleared' = cleared \union {data[r]}
  /\ Goto(r, "rsync")
  /\ UNCHANGED <<today, arrived, local, tgz, remote, data, names, todo, odd>>

\* The shell expands the pattern again; rm may fail on some of the files.
Rm(r) ==
  /\ pc[r] = "rm"
  /\ \E gone \in SUBSET OfDay(data[r]) : arh' = arh \ gone
  /\ cleared' = cleared \union {data[r]}
  /\ Goto(r, "rsync")
  /\ UNCHANGED <<today, arrived, local, tgz, remote, data, names, todo, odd>>

\* The shell lists the archives, those that former runs left behind included.
Rsync(r) ==
  /\ pc[r] = "rsync"
  /\ todo' = [todo EXCEPT ![r] = local]
  /\ Goto(r, "send")
  /\ UNCHANGED <<today, arrived, arh, local, tgz, remote, data, names, cleared, odd>>

\* --remove-source-files; an archive that another run has moved is passed over.
Send(r) ==
  /\ pc[r] = "send"
  /\ \E d \in todo[r] :
       /\ todo' = [todo EXCEPT ![r] = @ \ {d}]
       /\ IF d \in local
            THEN /\ remote' = [remote EXCEPT ![d] = tgz[d]]
                 /\ \/ local' = local \ {d} /\ tgz' = [tgz EXCEPT ![d] = {}]
                    \/ UNCHANGED <<local, tgz>>
            ELSE UNCHANGED <<remote, local, tgz>>
  /\ UNCHANGED <<today, arrived, arh, pc, data, names, cleared, odd>>

End(r) ==
  /\ pc[r] = "send" /\ todo[r] = {}
  /\ Off(r)
  /\ UNCHANGED <<today, arrived, arh, local, tgz, remote, cleared, odd>>

\* A crash, a kill, a restart of the host; or rsync loses the server.
Stop(r) ==
  /\ pc[r] # "off"
  /\ Off(r)
  /\ UNCHANGED <<today, arrived, arh, local, tgz, remote, cleared, odd>>

Run(r) == Start(r) \/ Tar(r) \/ TarEnds(r) \/ Rm(r) \/ Rsync(r) \/ Send(r) \/ End(r)

Next == NextDay \/ (\E f \in Files : Arrive(f)) \/ (\E r \in Runs : Run(r) \/ Stop(r))

Spec == Init /\ [][Next]_vars

-------------------------------------------------------------------------------
(* Properties *)

InTgz(f) == DayOf[f] \in local /\ f \in tgz[DayOf[f]]

\* A file that came into arh stays there until it can be unpacked from an
\* archive, here or on the backup server: whenever runs are stopped, and however
\* often rsync fails or is cut off, as long as none of Oddities happens.
Kept ==
  odd = {} =>
    \A f \in arrived : f \in arh \/ InTgz(f) \/ f \in remote[DayOf[f]]

\* The backup server's archives do not lose files: what a stopped run left
\* behind never takes the place of more.
RemoteGrows == [][odd' = {} => \A d \in Days : remote[d] \subseteq remote'[d]]_vars
===============================================================================
