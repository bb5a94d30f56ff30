-------------------------- MODULE ResourceDownload --------------------------
(***************************************************************************)
(* Downloads and installations of marketplace resources:                   *)
(* ai_fr_hg/ai/resources/download.py, install.py, lifecycle.py,            *)
(* recovery.py and verification.py, with the calls of api/resources.py.    *)
(*                                                                         *)
(* A download is a database row.  An RQ job executes it: it first installs *)
(* the dependencies that are missing, each as a download of its own inside *)
(* the same job, then the resource itself.  The job commits at the end of  *)
(* each installation and when it fails; everything between is one          *)
(* transaction that locks the rows it writes.  People start, pause,        *)
(* resume, retry and cancel downloads and update, roll back and remove     *)
(* installations meanwhile; a scheduler marks stalled downloads.           *)
(*                                                                         *)
(* The database is MariaDB 11.8 as in PipelineRun: reads answer from the   *)
(* view that the first read of a transaction opened, a write waits for the *)
(* lock of its row, and a write to a row that changed after the view was   *)
(* opened fails with error 1020, which rolls the transaction back.  A      *)
(* request that reads a row and writes it therefore either sees the row it *)
(* changes or fails: requests are single steps.                            *)
(*                                                                         *)
(* An operator X_Y just before an operator X is X with a plausible mistake *)
(* in it.  The specification does not use it.                              *)
(***************************************************************************)
EXTENDS Naturals, Sequences

CONSTANTS
    Resources,      \* AI Resource rows of the catalog
    Deps,           \* the dependencies of each resource
    Workers,        \* RQ worker processes of the queue "long"
    MaxDownloads,   \* bound: AI Resource Download rows
    MaxInstalls,    \* bound: AI Resource Install rows
    MaxVersion,     \* versions of a resource
    Ranged,         \* resources that an HTTP server offers in ranges; the
                    \* packages of the others are read from local files
    Catalog,        \* the version each resource has in the catalog
    Before,         \* resources that are installed, in version 1, at first
    MaxStarts,      \* bound: requests that start, resume, retry or update
    MaxStops,       \* bound: requests that pause, cancel, remove or roll back
    MaxCrashes      \* bound: jobs that are killed or never reach the queue

Downloads == 1 .. MaxDownloads
Installs == 1 .. MaxInstalls
Versions == 1 .. MaxVersion
NoDownload == 0

ASSUME ResourceAssumption ==
    /\ Resources # {}
    /\ Deps \in [Resources -> SUBSET Resources]
    /\ MaxDownloads \in Nat \ {0}
    /\ MaxInstalls \in Nat \ {0}
    /\ MaxVersion \in Nat \ {0}
    /\ Ranged \subseteq Resources
    /\ Catalog \in [Resources -> Versions]
    /\ Before \in Seq(Resources)
    /\ Len(Before) <= MaxInstalls
    /\ \A i, j \in 1 .. Len(Before) : Before[i] = Before[j] => i = j
    /\ MaxStarts \in Nat
    /\ MaxStops \in Nat
    /\ MaxCrashes \in Nat

VARIABLES
    dl,        \* committed AI Resource Download rows
    inst,      \* committed AI Resource Install rows
    files,     \* the package file in the download path of each resource
    snaps,     \* packages kept under the install path
    jobs,      \* what RQ knows of the job of each download
    rollbacks, \* rollback jobs in the queue
    w,         \* the workers: position in the job and open transaction
    used,      \* rows created so far, rolled back ones included
    raced,     \* history: resources activated by transactions that could not
               \* see each other, or rolled back from a version not in use
    requests,  \* requests of people so far
    crashes    \* jobs lost so far

rdvars == <<dl, inst, files, snaps, jobs, rollbacks, w, used, raced, requests, crashes>>

-----------------------------------------------------------------------------
(* Tables                                                                  *)

InFlight == {"Preparing", "Waiting Dependencies", "Downloading", "Installing",
             "Registering", "Activating", "Ready"}
Active == InFlight \cup {"Paused", "Retrying"}
Status == Active \cup {"None", "Completed", "Failed", "Cancelled"}
InstStatus == {"None", "Installing", "Active", "Update Available",
               "Rollback Pending", "Superseded", "Removed"}

DlRow == [res : Resources, parent : 0 .. MaxDownloads, status : Status,
          pause : BOOLEAN, cancelled : BOOLEAN]
InstRow == [res : Resources, ver : Versions, by : 0 .. MaxDownloads,
            status : InstStatus, active : BOOLEAN]

AnyResource == CHOOSE r \in Resources : TRUE
NoDl == [res |-> AnyResource, parent |-> NoDownload, status |-> "None",
         pause |-> FALSE, cancelled |-> FALSE]
NoInst == [res |-> AnyResource, ver |-> 1, by |-> NoDownload,
           status |-> "None", active |-> FALSE]

NewDl(r, p) == [NoDl EXCEPT !.res = r, !.parent = p, !.status = "Preparing"]

(* A transaction: the view it reads from and the rows it has written.      *)
Tables == [dl : [Downloads -> DlRow], inst : [Installs -> InstRow]]
NoView == [dl |-> [d \in Downloads |-> NoDl], inst |-> [i \in Installs |-> NoInst]]
Now == [dl |-> dl, inst |-> inst]

Positions == {"idle", "begin", "resolve", "fetch", "activate",
              "installed", "failing", "finish"}
WorkerState ==
    [pc : Positions, d : Downloads, cur : Downloads, ins : Installs,
     todo : SUBSET Resources, skipped : BOOLEAN,
     open : BOOLEAN, view : Tables, mine : Tables,
     myDl : SUBSET Downloads, myInst : SUBSET Installs]
IdleWorker ==
    [pc |-> "idle", d |-> 1, cur |-> 1, ins |-> 1, todo |-> {},
     skipped |-> FALSE, open |-> FALSE, view |-> NoView, mine |-> NoView,
     myDl |-> {}, myInst |-> {}]

RDTypeOK ==
    /\ dl \in [Downloads -> DlRow]
    /\ inst \in [Installs -> InstRow]
    /\ files \in [Resources -> {"none", "part", "whole", "bad"}]
    /\ snaps \subseteq Resources \X Versions
    /\ jobs \in [Downloads -> {"none", "queued", "started"}]
    /\ rollbacks \subseteq Installs \X Installs
    /\ w \in [Workers -> WorkerState]
    /\ used \in [dl : 0 .. MaxDownloads, inst : 0 .. MaxInstalls]
    /\ raced \subseteq Resources
    /\ requests \in [starts : 0 .. MaxStarts, stops : 0 .. MaxStops]
    /\ crashes \in 0 .. MaxCrashes

RDInit ==
    /\ dl = [d \in Downloads |-> NoDl]
    /\ inst = [i \in Installs |->
                 IF i > Len(Before) THEN NoInst
                 ELSE [NoInst EXCEPT !.res = Before[i], !.status = "Active", !.active = TRUE]]
    /\ files = [r \in Resources |-> "none"]
    /\ snaps = {<<Before[i], 1>> : i \in 1 .. Len(Before)}
    /\ jobs = [d \in Downloads |-> "none"]
    /\ rollbacks = {}
    /\ w = [k \in Workers |-> IdleWorker]
    /\ used = [dl |-> 0, inst |-> Len(Before)]
    /\ raced = {}
    /\ requests = [starts |-> 0, stops |-> 0]
    /\ crashes = 0

-----------------------------------------------------------------------------
(* Reading and writing inside a job's transaction                          *)

DlSeen(k, d) == IF d \in w[k].myDl THEN w[k].mine.dl[d] ELSE w[k].view.dl[d]
InstSeen(k, i) ==
    IF i \in w[k].myInst THEN w[k].mine.inst[i] ELSE w[k].view.inst[i]

DlFree(k, d) == \A j \in Workers \ {k} : d \notin w[j].myDl
InstFree(k, i) == \A j \in Workers \ {k} : i \notin w[j].myInst

(* The writes a transaction may make: to rows it holds, or to rows that no *)
(* other transaction holds and that are as its view shows them.            *)
MayWriteDl(k, d) ==
    d \in w[k].myDl \/ (DlFree(k, d) /\ (w[k].open => dl[d] = w[k].view.dl[d]))
StaleDl(k, d) ==
    d \notin w[k].myDl /\ DlFree(k, d) /\ w[k].open /\ dl[d] # w[k].view.dl[d]
MayWriteInst(k, i) ==
    i \in w[k].myInst \/ (InstFree(k, i) /\ inst[i] = w[k].view.inst[i])
StaleInst(k, i) ==
    i \notin w[k].myInst /\ InstFree(k, i) /\ inst[i] # w[k].view.inst[i]

PutDl(ws, d, row) ==
    [ws EXCEPT !.mine.dl[d] = row, !.myDl = @ \cup {d}]
PutInst(ws, I, f(_)) ==
    [ws EXCEPT !.mine.inst = [i \in Installs |-> IF i \in I THEN f(i) ELSE @[i]],
               !.myInst = @ \cup I]
SetStatus(k, d, s) == [DlSeen(k, d) EXCEPT !.status = s]

Closed(ws) ==
    [ws EXCEPT !.open = FALSE, !.view = NoView, !.mine = NoView,
               !.myDl = {}, !.myInst = {}]
Opened(ws) == IF ws.open THEN ws ELSE [ws EXCEPT !.open = TRUE, !.view = Now]

CommitDl(ws) == [d \in Downloads |-> IF d \in ws.myDl THEN ws.mine.dl[d] ELSE dl[d]]
CommitInst(ws) ==
    [i \in Installs |-> IF i \in ws.myInst THEN ws.mine.inst[i] ELSE inst[i]]

(* Resources activated beside an installation that the view does not show. *)
UnseenBy(ws) ==
    {r \in Resources : \E i \in ws.myInst, j \in Installs \ ws.myInst :
        /\ ws.mine.inst[i].res = r /\ ws.mine.inst[i].active
        /\ inst[j].res = r /\ inst[j].active /\ ~ws.view.inst[j].active}

Commit(ws) ==
    /\ dl' = CommitDl(ws)
    /\ inst' = CommitInst(ws)
    /\ raced' = raced \cup UnseenBy(ws)

InstalledIn_Any(table) ==
    {r \in Resources : \E i \in Installs :
        table[i].res = r /\ table[i].status # "None"}
InstalledIn(table) ==
    {r \in Resources : \E i \in Installs :
        /\ table[i].res = r
        /\ table[i].active
        /\ table[i].status \in {"Active", "Update Available"}}

-----------------------------------------------------------------------------
(* Requests                                                                *)

Unlocked(d) == \A k \in Workers : d \notin w[k].myDl
UnlockedInst(i) == \A k \in Workers : i \notin w[k].myInst

(* frappe.enqueue(deduplicate=True, enqueue_after_commit=True): nothing is *)
(* sent while RQ still knows a job of that name; a job may also be lost    *)
(* between the commit and the queue.                                       *)
Send(d) ==
    \/ /\ jobs' = IF jobs[d] = "none" THEN [jobs EXCEPT ![d] = "queued"] ELSE jobs
       /\ UNCHANGED crashes
    \/ /\ jobs[d] = "none"
       /\ crashes < MaxCrashes
       /\ crashes' = crashes + 1
       /\ UNCHANGED jobs

Starting ==
    /\ requests.starts < MaxStarts
    /\ requests' = [requests EXCEPT !.starts = @ + 1]
Stopping ==
    /\ requests.stops < MaxStops
    /\ requests' = [requests EXCEPT !.stops = @ + 1]

ExistingActive(r) ==
    {d \in Downloads : /\ dl[d].res = r
                       /\ dl[d].status \in Active
                       /\ ~dl[d].cancelled}

(* enqueue_download: with an active download of the resource, nothing is   *)
(* created and nothing is sent.                                            *)
CreateDownload(r) ==
    LET d == used.dl + 1 IN
    /\ ExistingActive(r) = {}
    /\ d \in Downloads
    /\ dl' = [dl EXCEPT ![d] = NewDl(r, NoDownload)]
    /\ used' = [used EXCEPT !.dl = d]
    /\ Send(d)

StartDownload(r) ==
    /\ Starting
    /\ CreateDownload(r)
    /\ UNCHANGED <<inst, files, snaps, rollbacks, w, raced>>

PauseDownload(d) ==
    /\ Stopping
    /\ Unlocked(d)
    /\ dl[d].status \in Active \ {"Paused"}
    /\ dl' = [dl EXCEPT ![d].pause = TRUE]
    /\ UNCHANGED <<inst, files, snaps, jobs, rollbacks, w, used, raced, crashes>>

CancelDownload(d) ==
    /\ Stopping
    /\ Unlocked(d)
    /\ dl[d].status \notin {"None", "Completed"}
    /\ dl' = [dl EXCEPT ![d].status = "Cancelled", ![d].cancelled = TRUE,
                        ![d].pause = FALSE]
    /\ UNCHANGED <<inst, files, snaps, jobs, rollbacks, w, used, raced, crashes>>

Resumable == {"Paused", "Failed", "Retrying", "Ready"}
GoOn(d) ==
    /\ Unlocked(d)
    /\ Starting
    /\ dl' = [dl EXCEPT ![d].status = "Downloading"]
    /\ Send(d)
    /\ UNCHANGED <<inst, files, snaps, rollbacks, w, used, raced>>

ResumeDownload(d) == dl[d].status \in Resumable /\ GoOn(d)

(* retry_download writes "Retrying" first, so resume_download refuses no   *)
(* download that exists.                                                   *)
RetryDownload(d) == dl[d].status \notin {"None"} \cup Resumable /\ GoOn(d)

(* A scheduler tick.  A job commits no heartbeat while it works, so any    *)
(* active row may look stalled; one whose row a job has locked is skipped  *)
(* when the write times out or fails with error 1020.                      *)
Recover_Running(d) ==
    /\ Unlocked(d)
    /\ dl[d].status \in {"Downloading", "Installing"}
    /\ ~dl[d].cancelled
    /\ dl' = [dl EXCEPT ![d].status = "Retrying", ![d].pause = FALSE]
    /\ UNCHANGED <<inst, files, snaps, jobs, rollbacks, w, used, raced, requests, crashes>>
Recover(d) ==
    /\ Unlocked(d)
    /\ dl[d].status \in Active
    /\ ~dl[d].cancelled
    /\ dl' = [dl EXCEPT ![d].status = "Retrying", ![d].pause = FALSE]
    /\ UNCHANGED <<inst, files, snaps, jobs, rollbacks, w, used, raced, requests, crashes>>

Installed(i) == inst[i].active /\ inst[i].status \in {"Active", "Update Available"}

Outdated_Retired(row) == [row EXCEPT !.status = "Update Available", !.active = FALSE]
Outdated(row) == [row EXCEPT !.status = "Update Available"]

UpdateResource(i) ==
    /\ UnlockedInst(i)
    /\ Installed(i)
    /\ Catalog[inst[i].res] # inst[i].ver
    /\ Starting
    /\ inst' = [inst EXCEPT ![i] = Outdated(@)]
    /\ \/ CreateDownload(inst[i].res)
       \/ /\ ExistingActive(inst[i].res) # {}
          /\ UNCHANGED <<dl, used, jobs, crashes>>
    /\ UNCHANGED <<files, snaps, rollbacks, w, raced>>

UninstallResource(i) ==
    /\ Stopping
    /\ UnlockedInst(i)
    /\ inst[i].status \notin {"None", "Removed"}
    /\ inst' = [inst EXCEPT ![i].status = "Removed", ![i].active = FALSE]
    /\ UNCHANGED <<dl, files, snaps, jobs, rollbacks, w, used, raced, crashes>>

(* The newest installation of the resource that has another version.       *)
Previous(i) ==
    {j \in Installs : /\ inst[j].status # "None"
                      /\ inst[j].res = inst[i].res
                      /\ inst[j].ver # inst[i].ver
                      /\ \A l \in Installs : l > j =>
                            \/ inst[l].status = "None"
                            \/ inst[l].res # inst[i].res
                            \/ inst[l].ver = inst[i].ver}

RollbackInstall(i) ==
    /\ UnlockedInst(i)
    /\ inst[i].status # "None"
    /\ Stopping
    /\ \E j \in Previous(i) :
        /\ <<inst[j].res, inst[j].ver>> \in snaps
        /\ inst' = [inst EXCEPT ![i].status = "Rollback Pending"]
        /\ rollbacks' = rollbacks \cup {<<i, j>>}
    /\ UNCHANGED <<dl, files, snaps, jobs, w, used, raced, crashes>>

(* _rollback_job is one transaction.  Its download row is created completed*)
(* and never seen as anything else; it is left out.                        *)
RollbackJob(p) ==
    LET i == p[1]
        j == p[2]
        n == used.inst + 1 IN
    /\ p \in rollbacks
    /\ UnlockedInst(i)
    /\ n \in Installs
    /\ snaps' = snaps \cup {<<inst[j].res, inst[j].ver>>}
    /\ inst' = [inst EXCEPT
                  ![i].status = "Superseded", ![i].active = FALSE,
                  ![n] = [res |-> inst[j].res, ver |-> inst[j].ver,
                          by |-> NoDownload, status |-> "Active", active |-> TRUE]]
    /\ used' = [used EXCEPT !.inst = n]
    /\ rollbacks' = rollbacks \ {p}
    /\ raced' = IF \E l \in Installs \ {i} : inst[l].res = inst[j].res /\ inst[l].active
                THEN raced \cup {inst[j].res} ELSE raced
    /\ UNCHANGED <<dl, files, jobs, w, requests, crashes>>

RollbackLost(p) ==
    /\ p \in rollbacks
    /\ crashes < MaxCrashes
    /\ rollbacks' = rollbacks \ {p}
    /\ crashes' = crashes + 1
    /\ UNCHANGED <<dl, inst, files, snaps, jobs, w, used, raced, requests>>

-----------------------------------------------------------------------------
(* The job of a download                                                   *)

Others == <<rollbacks, raced, requests>>

TakeJob(k, d) ==
    /\ w[k].pc = "idle"
    /\ jobs[d] = "queued"
    /\ jobs' = [jobs EXCEPT ![d] = "started"]
    /\ w' = [w EXCEPT ![k] = [IdleWorker EXCEPT !.pc = "begin", !.d = d]]
    /\ UNCHANGED <<dl, inst, files, snaps, used, crashes, Others>>

(* The first statement writes the row, whatever its status is, and the     *)
(* missing dependencies are read once.                                     *)
Begin(k) ==
    LET d == w[k].d
        ws == Opened(w[k]) IN
    /\ w[k].pc = "begin"
    /\ DlFree(k, d)
    /\ w' = [w EXCEPT ![k] =
               [PutDl(ws, d, [dl[d] EXCEPT !.status = "Waiting Dependencies"])
                  EXCEPT !.todo = Deps[dl[d].res] \ InstalledIn(inst),
                         !.pc = "resolve"]]
    /\ UNCHANGED <<dl, inst, files, snaps, jobs, used, crashes, Others>>

(* _check_interrupt reads what the transaction sees.                       *)
Halted(row) == row.status \in {"Cancelled", "Failed"}
PauseDue(row) == ~Halted(row) /\ (row.status = "Paused" \/ row.pause)
PausedRow(row) == [row EXCEPT !.status = "Paused", !.pause = FALSE]

Goto(k, pc) == w' = [w EXCEPT ![k].pc = pc]
Raise(k) == Goto(k, "failing")
RaiseDb(k) == w' = [w EXCEPT ![k] = [Closed(w[k]) EXCEPT !.pc = "failing"]]

(* An active download of the dependency that an earlier attempt left.      *)
Children(k, c) ==
    {e \in Downloads : /\ DlSeen(k, e).res = c
                       /\ DlSeen(k, e).parent = w[k].d
                       /\ DlSeen(k, e).status \in Active}

NextDependency(k, c) ==
    /\ w[k].pc = "resolve"
    /\ c \in w[k].todo
    /\ \/ \E e \in Children(k, c) :
            IF PauseDue(DlSeen(k, e))
            THEN IF StaleDl(k, e)
                 THEN RaiseDb(k) /\ UNCHANGED used
                 ELSE /\ MayWriteDl(k, e)
                      /\ w' = [w EXCEPT ![k] =
                            [PutDl(w[k], e, PausedRow(DlSeen(k, e)))
                               EXCEPT !.todo = {}, !.skipped = TRUE]]
                      /\ UNCHANGED used
            ELSE /\ w' = [w EXCEPT ![k].cur = e, ![k].pc = "fetch"]
                 /\ UNCHANGED used
       \/ LET e == used.dl + 1 IN
            /\ Children(k, c) = {}
            /\ e \in Downloads
            /\ used' = [used EXCEPT !.dl = e]
            /\ w' = [w EXCEPT ![k] = [PutDl(w[k], e, NewDl(c, w[k].d))
                                        EXCEPT !.cur = e, !.pc = "fetch"]]
       \/ Raise(k) /\ UNCHANGED used   \* the dependency left the catalog
    /\ UNCHANGED <<dl, inst, files, snaps, jobs, crashes, Others>>

(* After the dependencies: a pause or a cancellation of the download       *)
(* itself, unless it is newer than the view.  A job that stops commits.    *)
DependenciesDone(k) ==
    LET d == w[k].d
        row == DlSeen(k, d)
        stopped == IF PauseDue(row) THEN PutDl(w[k], d, PausedRow(row)) ELSE w[k] IN
    /\ w[k].pc = "resolve"
    /\ w[k].todo = {}
    /\ \/ /\ ~Halted(row) /\ ~PauseDue(row)
          /\ w' = [w EXCEPT ![k].cur = d, ![k].pc = "fetch"]
          /\ UNCHANGED <<dl, inst, raced>>
       \/ /\ PauseDue(row) /\ StaleDl(k, d)
          /\ RaiseDb(k)
          /\ UNCHANGED <<dl, inst, raced>>
       \/ /\ Halted(row) \/ (PauseDue(row) /\ MayWriteDl(k, d))
          /\ Commit(stopped)
          /\ w' = [w EXCEPT ![k] = [Closed(stopped) EXCEPT !.pc = "finish"]]
    /\ UNCHANGED <<files, snaps, jobs, used, crashes, rollbacks, requests>>

(* What a transfer may leave in the download path.  A local file is copied *)
(* from its start.  An HTTP transfer goes on where the file ends: a server *)
(* with ranges refuses the range behind a package that is there to its     *)
(* end (416), be it the right one or not.  The transfer may break off, and *)
(* the package may not be the one of the catalog.                          *)
Received(r) ==
    CASE r \notin Ranged -> {"whole"}
      [] r \in Ranged /\ files[r] \in {"none", "part"} -> {"part", "whole", "bad"}
      [] OTHER -> {}

(* verify_package and validate_manifest on the bytes of the file.          *)
Verified(file) == file = "whole"

Stored_Nothing(r, v) == {}
Stored(r, v) == {<<r, v>>}
NewInst(r, c) == [res |-> r, ver |-> Catalog[r], by |-> c,
                  status |-> "Installing", active |-> FALSE]

(* The row is locked from here to the commit, so the checks between the    *)
(* chunks find nothing new.  The source may not answer, a transfer and a   *)
(* package may be refused; the installer may refuse the manifest (a model  *)
(* without its provider) when the install row is there already; then the   *)
(* package is kept on disk, whatever becomes of the transaction.           *)
FetchAndInstall(k) ==
    LET c == w[k].cur
        i == used.inst + 1
        r == DlSeen(k, c).res
        row == NewInst(r, c)
        fetched == PutDl(w[k], c, SetStatus(k, c, "Downloading"))
        installed == PutInst(PutDl(w[k], c, SetStatus(k, c, "Installing")), {i},
                             LAMBDA j : row)
        Fail(ws) == w' = [w EXCEPT ![k] = [ws EXCEPT !.pc = "failing"]] IN
    /\ w[k].pc = "fetch"
    /\ \/ StaleDl(k, c) /\ RaiseDb(k) /\ UNCHANGED <<files, snaps, used>>
       \/ MayWriteDl(k, c) /\ Fail(fetched) /\ UNCHANGED <<files, snaps, used>>
       \/ /\ MayWriteDl(k, c)
          /\ \E file \in Received(r) :
                /\ files' = [files EXCEPT ![r] = file]
                /\ \/ ~Verified(file) /\ Fail(fetched) /\ UNCHANGED <<snaps, used>>
                   \/ /\ Verified(file)
                      /\ i \in Installs
                      /\ used' = [used EXCEPT !.inst = i]
                      /\ \/ Fail(installed) /\ UNCHANGED snaps
                         \/ /\ w' = [w EXCEPT ![k] = [installed EXCEPT
                                        !.ins = i, !.pc = "activate"]]
                            /\ snaps' = snaps \cup Stored(r, row.ver)
    /\ UNCHANGED <<dl, inst, jobs, crashes, Others>>

(* activate_install: the other active installations that the transaction   *)
(* sees are superseded.                                                    *)
Predecessors(k) ==
    {i \in Installs : /\ i # w[k].ins
                      /\ InstSeen(k, i).res = InstSeen(k, w[k].ins).res
                      /\ InstSeen(k, i).active}

Replaced(row) == [row EXCEPT !.status = "Superseded", !.active = FALSE]
Activated(row) == [row EXCEPT !.status = "Active", !.active = TRUE]

(* verify_ready_install refuses when a target is gone or disabled by now;  *)
(* otherwise the download is Completed and the transaction commits.        *)
Activate(k) ==
    LET c == w[k].cur
        I == Predecessors(k)
        ws == PutInst(w[k], I \cup {w[k].ins},
                      LAMBDA j : IF j = w[k].ins THEN Activated(InstSeen(k, j))
                                 ELSE Replaced(InstSeen(k, j)))
        done == PutDl(ws, c, SetStatus(k, c, "Completed"))
        notReady == PutDl(ws, c, SetStatus(k, c, "Ready")) IN
    /\ w[k].pc = "activate"
    /\ \/ /\ \E i \in I : StaleInst(k, i)
          /\ RaiseDb(k)
          /\ UNCHANGED <<dl, inst, raced>>
       \/ /\ \A i \in I : MayWriteInst(k, i)
          /\ w' = [w EXCEPT ![k] = [notReady EXCEPT !.pc = "failing"]]
          /\ UNCHANGED <<dl, inst, raced>>
       \/ /\ \A i \in I : MayWriteInst(k, i)
          /\ Commit(done)
          /\ w' = [w EXCEPT ![k] = [Closed(done) EXCEPT !.pc = "installed"]]
    /\ UNCHANGED <<files, snaps, jobs, used, crashes, rollbacks, requests>>

(* After an installation: the job of the download itself is done.  After a *)
(* dependency a new view is opened, and only the dependency is looked at.  *)
AfterInstall(k) ==
    LET c == w[k].cur
        ws == Opened(w[k])
        row == dl[c]
        stop == Halted(row) \/ PauseDue(row)
        next == [ws EXCEPT !.todo = IF stop THEN {} ELSE @ \ {row.res},
                           !.skipped = @ \/ (stop /\ w[k].todo # {row.res}),
                           !.pc = "resolve"] IN
    /\ w[k].pc = "installed"
    /\ IF c = w[k].d
       THEN Goto(k, "finish")
       ELSE /\ PauseDue(row) => DlFree(k, c)
            /\ w' = [w EXCEPT ![k] = IF PauseDue(row)
                                     THEN PutDl(next, c, PausedRow(row))
                                     ELSE next]
    /\ UNCHANGED <<dl, inst, files, snaps, jobs, used, crashes, Others>>

(* _mark_failed writes Failed beside all that the transaction wrote before *)
(* the exception, and commits it.  A row that changed meanwhile refuses.   *)
MarkFailed(k) ==
    LET d == w[k].d
        ws == PutDl(w[k], d, [(IF w[k].open THEN DlSeen(k, d) ELSE dl[d])
                                EXCEPT !.status = "Failed"]) IN
    /\ w[k].pc = "failing"
    /\ \/ /\ StaleDl(k, d)
          /\ UNCHANGED <<dl, inst, raced>>
       \/ /\ MayWriteDl(k, d)
          /\ Commit(ws)
    /\ w' = [w EXCEPT ![k] = [Closed(w[k]) EXCEPT !.pc = "finish"]]
    /\ UNCHANGED <<files, snaps, jobs, used, crashes, rollbacks, requests>>

(* RQ notes that the job ended.                                            *)
Finish(k) ==
    /\ w[k].pc = "finish"
    /\ jobs' = [jobs EXCEPT ![w[k].d] = "none"]
    /\ w' = [w EXCEPT ![k] = IdleWorker]
    /\ UNCHANGED <<dl, inst, files, snaps, used, crashes, Others>>

(* A killed worker leaves what it wrote to disk; RQ forgets its job later. *)
Die(k) ==
    /\ w[k].pc # "idle"
    /\ crashes < MaxCrashes
    /\ crashes' = crashes + 1
    /\ w' = [w EXCEPT ![k] = IdleWorker]
    /\ \/ UNCHANGED files
       \/ LET r == DlSeen(k, w[k].cur).res IN
            /\ w[k].pc = "fetch"
            /\ files[r] \in {"none", "part"} \/ r \notin Ranged
            /\ files' = [files EXCEPT ![r] = "part"]
    /\ UNCHANGED <<dl, inst, snaps, jobs, used, Others>>

Forget(d) ==
    /\ jobs[d] = "started"
    /\ \A k \in Workers : w[k].pc = "idle" \/ w[k].d # d
    /\ jobs' = [jobs EXCEPT ![d] = "none"]
    /\ UNCHANGED <<dl, inst, files, snaps, w, used, crashes, Others>>

Work(k) ==
    \/ \E d \in Downloads : TakeJob(k, d)
    \/ Begin(k)
    \/ \E c \in Resources : NextDependency(k, c)
    \/ DependenciesDone(k)
    \/ FetchAndInstall(k)
    \/ Activate(k)
    \/ AfterInstall(k)
    \/ MarkFailed(k)
    \/ Finish(k)

People ==
    \/ \E r \in Resources : StartDownload(r)
    \/ \E d \in Downloads :
        \/ PauseDownload(d)
        \/ CancelDownload(d)
        \/ ResumeDownload(d)
        \/ RetryDownload(d)
    \/ \E i \in Installs :
        \/ UpdateResource(i)
        \/ UninstallResource(i)
        \/ RollbackInstall(i)

RDNext ==
    \/ People
    \/ \E d \in Downloads : Recover(d) \/ Forget(d)
    \/ \E p \in Installs \X Installs : RollbackJob(p) \/ RollbackLost(p)
    \/ \E k \in Workers : Work(k) \/ Die(k)

RDSpec == RDInit /\ [][RDNext]_rdvars

(* Workers that live go on and the scheduler ticks.                        *)
FairSpec ==
    /\ RDSpec
    /\ \A k \in Workers : WF_rdvars(Work(k))
    /\ WF_rdvars(\E d \in Downloads : Recover(d))

-----------------------------------------------------------------------------
(* Properties                                                              *)

(* An installation in use has its package on disk, from which rollback and *)
(* offline reinstallation work, whichever job died or failed: the file is  *)
(* outside the transaction that activates the installation.                *)
ActiveHasFiles ==
    \A i \in Installs : inst[i].active => <<inst[i].res, inst[i].ver>> \in snaps

(* One installation of a resource is in use, unless two jobs installed it  *)
(* without seeing each other or somebody rolled back from a version that   *)
(* was not in use (activate_install retires the predecessors it sees).     *)
OneActive ==
    \A i, j \in Installs :
        /\ inst[i].active /\ inst[j].active
        /\ inst[i].res = inst[j].res
        /\ inst[i].res \notin raced
        => i = j

(* What is in use has its package on disk, and is in use once: the two     *)
(* things a rollback and the uninstalling of a resource rely on.           *)
InUseSound == ActiveHasFiles /\ OneActive

(* A job that fails or dies takes no resource out of use: only removal and *)
(* a rollback do.                                                          *)
JobsKeepService ==
    [][\A r \in InstalledIn(inst) :
        \/ r \in InstalledIn(inst')
        \/ \E i \in Installs :
             /\ inst[i].res = r
             /\ inst'[i].status \in {"Removed", "Rollback Pending"}
             /\ inst'[i].status # inst[i].status]_rdvars

(* When a download completes, every dependency has been activated, unless  *)
(* the job was stopped at one of them (_resolve_dependencies returns and   *)
(* the job goes on).                                                       *)
DependenciesFirst ==
    [][\A k \in Workers :
        /\ w[k].pc = "activate" /\ w'[k].pc = "installed"
        /\ w[k].cur = w[k].d /\ ~w[k].skipped
        => \A c \in Deps[dl[w[k].d].res] :
              \E i \in Installs : /\ inst'[i].res = c
                                  /\ inst'[i].status \notin {"None", "Installing"}]_rdvars

(* A resource in use stays in use, and none comes into use before what it  *)
(* depends on, whatever jobs stop, fail or die on the way.                 *)
ServiceKept == JobsKeepService /\ DependenciesFirst

(* A download in flight whose job is gone does not stay so: the scheduler  *)
(* offers it for a retry.  One that was cancelled and retried is left out  *)
(* (recovery ignores every row that was ever cancelled).                   *)
Settles ==
    \A d \in Downloads :
        (dl[d].status \in InFlight /\ ~dl[d].cancelled) ~> dl[d].status \notin InFlight

(* recovery.py:74: "Retry a failed/stalled download from its checkpoint."  *)
(* A failed download leaves a file that a transfer can go on from.         *)
CheckpointUsable ==
    \A d \in Downloads : dl[d].status = "Failed" => Received(dl[d].res) # {}

(* download.py:14: "Pause and cancel are honoured between chunks and       *)
(* stages."  A download that is Cancelled is not installed.                *)
CancelHonoured ==
    [][\A i \in Installs :
        inst'[i].active /\ ~inst[i].active /\ inst'[i].by # NoDownload
        => dl[inst'[i].by].status # "Cancelled"]_rdvars

=============================================================================
