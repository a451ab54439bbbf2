------------------------------ MODULE ModelStore ------------------------------
(***************************************************************************)
(* The versioned model store of the anomaly-detection API: ModelService    *)
(* (app/services/model_service.py) over ModelRepository                    *)
(* (app/repository/model_repository.py).                                   *)
(*                                                                         *)
(* Every HTTP request runs in a worker thread.  A fit takes the lock of    *)
(* its series, derives the next version label from index.json, writes the  *)
(* version directory, model.joblib and metadata.json, and then publishes   *)
(* the version by replacing index.json.  Readers take no lock: they        *)
(* resolve a version from index.json and open the files of that version,   *)
(* whatever a concurrent fit has written by then.                          *)
(*                                                                         *)
(* Each step below is one access to the shared file system or to the lock. *)
(* A file that is being written, or whose write failed half way, holds     *)
(* Torn.  The content of a complete model or metadata file is the identity *)
(* of the fit request that wrote it.                                       *)
(***************************************************************************)
EXTENDS Naturals, Sequences, Functions

CONSTANTS
  Requests,    \* identities of HTTP requests; each is submitted at most once
  Series,      \* series identifiers a client may send
  SafeSeries,  \* those that are safe as a path component
  Detectors,   \* the supported detector names
  Menu,        \* the request descriptors clients may send
  Versions,    \* version numbers n of the labels "v<n>"
  MaxCrashes,  \* bound on process restarts
  MaxFaults,   \* bound on failing file operations of fits
  NoFile,      \* the file does not exist
  Torn,        \* the file exists with a truncated or partial content
  NoOne        \* the lock is free

Ops == {"fit", "predict", "detail", "version", "plot"}

\* want is the number of the requested version, 0 for "the latest"; data tells
\* whether ValidationService accepts the training data of a fit.
RequestType ==
  [op : Ops, series : Series, detector : STRING, want : Nat,
   data : {"valid", "invalid"}]

ASSUME ConstantsAssumption ==
  /\ SafeSeries \subseteq Series
  /\ Detectors \subseteq STRING
  /\ Versions \subseteq Nat \ {0}
  /\ MaxCrashes \in Nat
  /\ MaxFaults \in Nat

ASSUME MenuAssumption ==
  /\ Menu \subseteq RequestType
  /\ Menu # {}
  /\ \A m \in Menu : /\ m.op \in {"fit", "detail"} => m.want = 0
                     /\ m.op = "version" => m.want # 0

ASSUME MarksAssumption ==
  /\ NoFile \notin Requests
  /\ Torn \notin Requests
  /\ NoOne \notin Requests
  /\ NoFile # Torn

VARIABLES
  dirs,    \* namespace -> numbers of the version directories that exist
  model,   \* namespace, version -> content of model.joblib
  meta,    \* namespace, version -> content of metadata.json
  tmp,     \* namespace -> content of index.json.tmp
  index,   \* namespace -> content of index.json
  lock,    \* series -> the request that holds LockManager.get_lock(series)
  pc,      \* request -> the next step of its handler
  req,     \* request -> its descriptor
  ver,     \* request -> the version it trains or has resolved
  draft,   \* request -> the index payload its save is about to write
  prov,    \* request -> the fits whose artifacts its answer is made of
  status,  \* request -> HTTP status of its answer, Pending before
  floor,   \* request -> latest version of its namespace when submitted
  crashes, \* restarts so far
  faults   \* failed file operations so far

disk == <<dirs, model, meta, tmp, index>>
locals == <<req, ver, draft, prov, floor>>
budget == <<crashes, faults>>
vars == <<disk, lock, pc, status, locals, budget>>

-----------------------------------------------------------------------------
(* Shared definitions *)

\* A (series, detector) pair is an independent storage namespace.
Namespaces == SafeSeries \X Detectors
Space(q) == <<q.series, q.detector>>
NS(r) == Space(req[r])

Content == {NoFile, Torn} \cup Requests

\* index.json, of which a missing file is the record NoIndex.
IndexFile == [latest : Nat, versions : Seq(Nat)]
NoIndex == [latest |-> 0, versions |-> <<>>]

Pending == 0
Codes == {Pending, 200, 400, 404, 422, 500}

\* The control points of a fit between acquiring and releasing the lock; from
\* "mkdir" on it holds a version label.
WriteSteps == {"mkdir", "openModel", "dumpModel", "openMeta", "writeMeta",
               "openTmp", "writeTmp", "replace"}
Critical == WriteSteps \cup {"nextVersion", "readIndex", "release"}
\* Before each of them but the last is an access to a file, which may fail.
FaultSteps == Critical \ {"release"}
ReadSteps == {"resolve", "dir", "files", "loadModel", "loadMeta", "again"}
Ended == {"done", "lost"}
Points == Critical \cup ReadSteps \cup Ended \cup {"idle", "acquire"}

Goto(r, from, to) == pc[r] = from /\ pc' = [pc EXCEPT ![r] = to]

Answer(r, from, code) ==
  /\ Goto(r, from, "done")
  /\ status' = [status EXCEPT ![r] = code]

-----------------------------------------------------------------------------
(* Bugs this code could have.  They are no part of the specification: each *)
(* stands in for the definition its comment names, to see that a property  *)
(* would notice.                                                           *)

\* Unlock, without a `with` block: the lock of a request is never released.
KeepLocked(r) == UNCHANGED lock

\* Acquire, with a lock object of its own for every request.
AcquireUnlocked(r) ==
  /\ Goto(r, "acquire", "nextVersion")
  /\ lock' = [lock EXCEPT ![req[r].series] = r]
  /\ UNCHANGED <<disk, status, locals, budget>>

\* LatestOf and NewLabel, from the version directories instead of the index.
NewestDir(r) ==
  IF dirs[NS(r)] = {} THEN 0
  ELSE CHOOSE v \in dirs[NS(r)] : \A u \in dirs[NS(r)] : u <= v

LabelAfterDirs(r) == NewestDir(r) + 1

\* NewLabel, retraining the latest version in place.
SameLabel(r) ==
  IF index[NS(r)].latest = 0 THEN 1 ELSE index[NS(r)].latest

\* Publish, rebuilding the list of versions instead of extending it.
PublishAfresh(i, v) == [latest |-> v, versions |-> <<v>>]

\* Mkdir, keeping the newest version directory only.
MkdirFresh(r) ==
  /\ Goto(r, "mkdir", "openModel")
  /\ dirs' = [dirs EXCEPT ![NS(r)] = {ver[r]}]
  /\ UNCHANGED <<model, meta, tmp, index, lock, status, locals, budget>>

\* WriteFault, swallowing the error of json.dump.
SwallowedFault(r) ==
  /\ faults < MaxFaults
  /\ faults' = faults + 1
  /\ Goto(r, "writeMeta", "readIndex")
  /\ UNCHANGED <<disk, lock, status, locals, crashes>>

\* CheckFiles, behind the lock of the series.
CheckFilesLocked(r) ==
  /\ lock[req[r].series] = NoOne
  /\ Goto(r, "files", "loadModel")
  /\ UNCHANGED <<disk, lock, status, locals, budget>>

-----------------------------------------------------------------------------
(* The index and the lock *)

\* _next_version, and the version a read without one resolves to.
LatestOf(r) == index[NS(r)].latest
NewLabel(r) == index[NS(r)].latest + 1

\* The payload that publishes version v on top of index i.
Publish(i, v) ==
  [latest   |-> v,
   versions |-> IF v \in Range(i.versions) THEN i.versions
                                           ELSE Append(i.versions, v)]

\* Leaving the `with lock_ctx` block, normally or by an exception.
Unlock(r) == lock' = [lock EXCEPT ![req[r].series] = NoOne]

Init ==
  /\ dirs = [n \in Namespaces |-> {}]
  /\ model = [n \in Namespaces |-> [v \in Versions |-> NoFile]]
  /\ meta = [n \in Namespaces |-> [v \in Versions |-> NoFile]]
  /\ tmp = [n \in Namespaces |-> NoFile]
  /\ index = [n \in Namespaces |-> NoIndex]
  /\ lock = [s \in Series |-> NoOne]
  /\ pc = [r \in Requests |-> "idle"]
  /\ req = [r \in Requests |-> CHOOSE m \in Menu : TRUE]
  /\ ver = [r \in Requests |-> 0]
  /\ draft = [r \in Requests |-> NoIndex]
  /\ prov = [r \in Requests |-> {}]
  /\ status = [r \in Requests |-> Pending]
  /\ floor = [r \in Requests |-> 0]
  /\ crashes = 0
  /\ faults = 0

-----------------------------------------------------------------------------
(* Submission: the checks every handler makes before it touches a lock or  *)
(* the file system.                                                        *)

SubmitWith(r, q) ==
  /\ req' = [req EXCEPT ![r] = q]
  /\ floor' = [floor EXCEPT ![r] =
                 IF Space(q) \in Namespaces THEN index[Space(q)].latest ELSE 0]
  /\ UNCHANGED <<disk, lock, ver, draft, prov, budget>>

\* A supported detector and, for a fit, training data that pass validation.
Admissible(q) == q.detector \in Detectors /\ (q.op = "fit" => q.data = "valid")

Accept(r) ==
  \E q \in Menu :
    /\ Admissible(q)
    /\ Goto(r, "idle", IF q.op = "fit" THEN "acquire" ELSE "resolve")
    /\ SubmitWith(r, q)
    /\ UNCHANGED status

\* The detector is checked first: UnsupportedDetectorError answers 422, a
\* ValidationServiceError 400.
Reject(r) ==
  \E q \in Menu :
    /\ ~Admissible(q)
    /\ Answer(r, "idle", IF q.detector \in Detectors THEN 400 ELSE 422)
    /\ SubmitWith(r, q)

\* The repository refuses an unsafe series identifier: InvalidSeriesIdError is
\* raised by the first get_index of the handler, for a fit inside the lock.
RefuseSeries(r) ==
  /\ req[r].series \notin SafeSeries
  /\ \/ Answer(r, "nextVersion", 400) /\ Unlock(r)
     \/ Answer(r, "resolve", 400) /\ UNCHANGED lock
  /\ UNCHANGED <<disk, locals, budget>>

-----------------------------------------------------------------------------
(* ModelService.train and ModelRepository.save *)

Acquire(r) ==
  /\ Goto(r, "acquire", "nextVersion")
  /\ lock[req[r].series] = NoOne
  /\ lock' = [lock EXCEPT ![req[r].series] = r]
  /\ UNCHANGED <<disk, status, locals, budget>>

\* The label of the new version; the detector is then fitted in memory.
\* Versions bounds the labels of an instance.
NextVersion(r) ==
  /\ Goto(r, "nextVersion", "mkdir")
  /\ req[r].series \in SafeSeries
  /\ NewLabel(r) \in Versions
  /\ ver' = [ver EXCEPT ![r] = NewLabel(r)]
  /\ UNCHANGED <<disk, lock, status, req, draft, prov, floor, budget>>

Mkdir(r) ==
  /\ Goto(r, "mkdir", "openModel")
  /\ dirs' = [dirs EXCEPT ![NS(r)] = @ \cup {ver[r]}]
  /\ UNCHANGED <<model, meta, tmp, index, lock, status, locals, budget>>

\* Opening a file for writing truncates it; it is whole only once written.
SetModel(r, from, to, c) ==
  /\ Goto(r, from, to)
  /\ model' = [model EXCEPT ![NS(r)][ver[r]] = c]
  /\ UNCHANGED <<dirs, meta, tmp, index, lock, status, locals, budget>>

SetMeta(r, from, to, c) ==
  /\ Goto(r, from, to)
  /\ meta' = [meta EXCEPT ![NS(r)][ver[r]] = c]
  /\ UNCHANGED <<dirs, model, tmp, index, lock, status, locals, budget>>

SetTmp(r, from, to, c) ==
  /\ Goto(r, from, to)
  /\ tmp' = [tmp EXCEPT ![NS(r)] = c]
  /\ UNCHANGED <<dirs, model, meta, index, lock, status, locals, budget>>

OpenModel(r) == SetModel(r, "openModel", "dumpModel", Torn)
DumpModel(r) == SetModel(r, "dumpModel", "openMeta", r)
OpenMeta(r) == SetMeta(r, "openMeta", "writeMeta", Torn)
WriteMeta(r) == SetMeta(r, "writeMeta", "readIndex", r)

ReadIndex(r) ==
  /\ Goto(r, "readIndex", "openTmp")
  /\ draft' = [draft EXCEPT ![r] = Publish(index[NS(r)], ver[r])]
  /\ UNCHANGED <<disk, lock, status, req, ver, prov, floor, budget>>

OpenTmp(r) == SetTmp(r, "openTmp", "writeTmp", Torn)
WriteTmp(r) == SetTmp(r, "writeTmp", "replace", draft[r])

\* os.replace: the commit point of a fit.
Replace(r) ==
  /\ Goto(r, "replace", "release")
  /\ index' = [index EXCEPT ![NS(r)] = tmp[NS(r)]]
  /\ tmp' = [tmp EXCEPT ![NS(r)] = NoFile]
  /\ UNCHANGED <<dirs, model, meta, lock, status, locals, budget>>

Release(r) ==
  /\ Answer(r, "release", 200)
  /\ Unlock(r)
  /\ UNCHANGED <<disk, locals, budget>>

\* A file operation of a fit raises OSError, the reads of the index included:
\* nothing is cleaned up, the `with` block releases the lock and the handler of
\* Exception answers 500.  At "mkdir" it also stands for a fit() that raises.
WriteFault(r) ==
  /\ faults < MaxFaults
  /\ faults' = faults + 1
  /\ req[r].series \in SafeSeries
  /\ \E p \in FaultSteps : Answer(r, p, 500)
  /\ Unlock(r)
  /\ UNCHANGED <<disk, locals, crashes>>

-----------------------------------------------------------------------------
(* The read handlers: predict, model detail, version metadata and plot *)

\* Repository.load checks both files and reads both; load_metadata reads one.
FirstRead(q) == IF q.op \in {"predict", "detail"} THEN "files" ELSE "loadMeta"

\* _resolve_version and get_series_info: the index alone decides what "latest"
\* is; an explicit version is looked for next.
Resolve(r) ==
  /\ pc[r] = "resolve"
  /\ req[r].series \in SafeSeries
  /\ \/ /\ index[NS(r)] = NoIndex
        /\ Answer(r, "resolve", 404)
        /\ UNCHANGED ver
     \/ /\ index[NS(r)] # NoIndex
        /\ \/ /\ req[r].want = 0
              /\ Goto(r, "resolve", FirstRead(req[r]))
              /\ ver' = [ver EXCEPT ![r] = LatestOf(r)]
           \/ /\ req[r].want # 0
              /\ Goto(r, "resolve", "dir")
              /\ ver' = [ver EXCEPT ![r] = req[r].want]
        /\ UNCHANGED status
  /\ UNCHANGED <<disk, lock, req, draft, prov, floor, budget>>

\* version_exists: the directory decides, not the index.  The code takes any
\* string as a version; here it is the number of a label, so that a path that
\* is no label is not asked for.
CheckDir(r) ==
  /\ pc[r] = "dir"
  /\ \/ /\ ver[r] \in dirs[NS(r)]
        /\ Goto(r, "dir", FirstRead(req[r]))
        /\ UNCHANGED status
     \/ /\ ver[r] \notin dirs[NS(r)]
        /\ Answer(r, "dir", 404)
  /\ UNCHANGED <<disk, lock, locals, budget>>

\* No handler is registered for FileNotFoundError: it answers 500.
CheckFiles(r) ==
  /\ pc[r] = "files"
  /\ \/ /\ NoFile \notin {model[NS(r)][ver[r]], meta[NS(r)][ver[r]]}
        /\ Goto(r, "files", "loadModel")
        /\ UNCHANGED status
     \/ /\ NoFile \in {model[NS(r)][ver[r]], meta[NS(r)][ver[r]]}
        /\ Answer(r, "files", 500)
  /\ UNCHANGED <<disk, lock, locals, budget>>

\* A whole file with content c is read into the answer.
Take(r, c) ==
  /\ c \in Requests
  /\ prov' = [prov EXCEPT ![r] = @ \cup {c}]

\* The prediction is computed from the model; a truncated file cannot be
\* unpickled.  model detail loads the model too but answers from the metadata.
LoadModel(r) ==
  /\ pc[r] = "loadModel"
  /\ LET c == model[NS(r)][ver[r]] IN
       \/ /\ c \in Requests
          /\ Goto(r, "loadModel", "loadMeta")
          /\ IF req[r].op = "predict" THEN Take(r, c) ELSE UNCHANGED prov
          /\ UNCHANGED status
       \/ /\ c \notin Requests
          /\ Answer(r, "loadModel", 500)
          /\ UNCHANGED prov
  /\ UNCHANGED <<disk, lock, req, ver, draft, floor, budget>>

\* predict reads the metadata but does not use it.  Only plot maps a missing
\* file to an error of its own (PlotDataUnavailableError).  A plot's 200 is that
\* of its data: what can still go wrong while it is drawn is in PlotFigures.
LoadMeta(r) ==
  /\ pc[r] = "loadMeta"
  /\ LET c == meta[NS(r)][ver[r]] IN
       \/ /\ c \notin Requests
          /\ Answer(r, "loadMeta",
                    IF req[r].op = "plot" /\ c = NoFile THEN 422 ELSE 500)
          /\ UNCHANGED prov
       \/ /\ req[r].op = "predict"
          /\ c \in Requests
          /\ Answer(r, "loadMeta", 200)
          /\ UNCHANGED prov
       \/ /\ req[r].op = "detail"
          /\ Take(r, c)
          /\ Goto(r, "loadMeta", "again")
          /\ UNCHANGED status
       \/ /\ req[r].op \in {"version", "plot"}
          /\ Take(r, c)
          /\ Answer(r, "loadMeta", 200)
  /\ UNCHANGED <<disk, lock, req, ver, draft, floor, budget>>

\* get_model_detail reads the metadata a second time for the quality report.
LoadMetaAgain(r) ==
  /\ pc[r] = "again"
  /\ LET c == meta[NS(r)][ver[r]] IN
       \/ Take(r, c) /\ Answer(r, "again", 200)
       \/ c \notin Requests /\ Answer(r, "again", 500) /\ UNCHANGED prov
  /\ UNCHANGED <<disk, lock, req, ver, draft, floor, budget>>

-----------------------------------------------------------------------------
(* The process dies and is started again: threads and locks are gone, the  *)
(* files stay as they are.                                                 *)

Restart ==
  /\ crashes < MaxCrashes
  /\ crashes' = crashes + 1
  /\ pc' = [r \in Requests |->
              IF pc[r] \in Ended \cup {"idle"} THEN pc[r] ELSE "lost"]
  /\ lock' = [s \in Series |-> NoOne]
  /\ UNCHANGED <<disk, status, locals, faults>>

Fit(r) ==
  \/ Acquire(r) \/ NextVersion(r) \/ Mkdir(r)
  \/ OpenModel(r) \/ DumpModel(r) \/ OpenMeta(r) \/ WriteMeta(r)
  \/ ReadIndex(r) \/ OpenTmp(r) \/ WriteTmp(r) \/ Replace(r) \/ Release(r)

Read(r) ==
  \/ Resolve(r) \/ CheckDir(r) \/ CheckFiles(r)
  \/ LoadModel(r) \/ LoadMeta(r) \/ LoadMetaAgain(r)

Submit(r) == Accept(r) \/ Reject(r)

\* A step of the handler of r that does not depend on a failure.
Step(r) == Fit(r) \/ Read(r) \/ RefuseSeries(r)

\* All requests have been answered, or lost in a restart.
Terminating == (\A r \in Requests : pc[r] \in Ended) /\ UNCHANGED vars

Next ==
  \/ \E r \in Requests : Submit(r) \/ Step(r) \/ WriteFault(r)
  \/ Restart
  \/ Terminating

Spec == Init /\ [][Next]_vars

-----------------------------------------------------------------------------
(* Properties *)

\* Type invariant: every variable has values of its type, in particular
\* index.json is never seen half written (_write_index_atomically).
TypeOK ==
  /\ dirs \in [Namespaces -> SUBSET Versions]
  /\ model \in [Namespaces -> [Versions -> Content]]
  /\ meta \in [Namespaces -> [Versions -> Content]]
  /\ tmp \in [Namespaces -> IndexFile \cup {NoFile, Torn}]
  /\ index \in [Namespaces -> IndexFile]
  /\ lock \in [Series -> Requests \cup {NoOne}]
  /\ pc \in [Requests -> Points]
  /\ req \in [Requests -> Menu]
  /\ ver \in [Requests -> Nat]
  /\ draft \in [Requests -> IndexFile]
  /\ prov \in [Requests -> SUBSET Requests]
  /\ status \in [Requests -> Codes]
  /\ floor \in [Requests -> Nat]
  /\ crashes \in 0 .. MaxCrashes
  /\ faults \in 0 .. MaxFaults

Published(n) == Range(index[n].versions)

\* The lock of a series is held exactly by the fit that is between acquiring
\* and releasing it: a refused, failed or interrupted fit never leaves the
\* series locked, and no fit works on a series whose lock another one holds.
LockDiscipline ==
  \A s \in Series, r \in Requests :
    lock[s] = r <=> pc[r] \in Critical /\ req[r].series = s

\* An index never names a version that cannot be served: the model and the
\* metadata of every published version are whole, were written by one and the
\* same fit, and that fit trained this very version of this namespace.
PublishedComplete ==
  \A n \in Namespaces : \A v \in Published(n) :
    /\ v \in dirs[n]
    /\ model[n][v] \in Requests
    /\ meta[n][v] = model[n][v]
    /\ LET r == model[n][v] IN req[r].op = "fit" /\ NS(r) = n /\ ver[r] = v

\* Versions are numbered without gaps or repetitions: the list of versions of
\* a namespace is v1, v2, ..., latest, after any crashes and failed saves.
Contiguous ==
  \A n \in Namespaces :
    index[n].versions = [i \in 1 .. index[n].latest |-> i]

\* A fit that answered 200 is durable: its version stays published with the
\* artifacts it wrote; hence two acknowledged fits never share a version.
Durable(r) ==
  req[r].op = "fit" /\ status[r] = 200 =>
    /\ NS(r) \in Namespaces
    /\ ver[r] \in Published(NS(r))
    /\ model[NS(r)][ver[r]] = r
    /\ meta[NS(r)][ver[r]] = r

FitDurable == \A r \in Requests : Durable(r)

\* The requests that read, get past the checks on their input and have been
\* answered.
AnsweredReads ==
  {r \in Requests : /\ pc[r] = "done"
                    /\ req[r].op # "fit"
                    /\ NS(r) \in Namespaces}

\* The answer of r was assembled from the artifacts of one published fit,
\* those of the version it names.
FromPublished(r) ==
  /\ status[r] = 200
  /\ ver[r] \in Published(NS(r))
  /\ prov[r] = {model[NS(r)][ver[r]]}

\* Readers take no lock, and yet a read of the latest version never fails and
\* is never stale: it answers from a published version at least as new as the
\* one that was latest when it was submitted, and "not found" only if there
\* was none.
LatestServed ==
  \A r \in AnsweredReads :
    req[r].want = 0 => \/ FromPublished(r) /\ ver[r] >= floor[r]
                       \/ status[r] = 404 /\ floor[r] = 0

\* A read of an explicit version that was published when the read was
\* submitted answers from exactly that version, whatever fits run meanwhile.
PinnedServed ==
  \A r \in AnsweredReads :
    req[r].want \in 1 .. floor[r] => FromPublished(r) /\ ver[r] = req[r].want

\* index.json only ever gains one new, larger version, at the end of the list.
AppendOnly ==
  [][\A n \in Namespaces :
       index'[n] # index[n] =>
         /\ index'[n].versions = Append(index[n].versions, index'[n].latest)
         /\ index'[n].latest > index[n].latest]_vars

\* The files of a published version are never written again: no later fit,
\* failure or restart touches them.
PublishedImmutable ==
  [][\A n \in Namespaces : \A v \in Published(n) :
       /\ v \in dirs'[n]
       /\ model'[n][v] = model[n][v]
       /\ meta'[n][v] = meta[n][v]]_vars

-----------------------------------------------------------------------------
(* The inductive invariant behind the properties above *)

\* How far a save has come.
Saving == Critical \ {"nextVersion", "release"}
AfterMkdir == Critical \ {"nextVersion", "mkdir"}
AfterModel == AfterMkdir \ {"openModel", "dumpModel"}
AfterMeta == AfterModel \ {"openMeta", "writeMeta"}
AfterDraft == {"openTmp", "writeTmp", "replace"}

\* Who may be where, and that exactly the ended handlers have answered.
RoleOf(r) ==
  /\ pc[r] \in Critical \cup {"acquire"} =>
       req[r].op = "fit" /\ req[r].detector \in Detectors
  /\ pc[r] \in ReadSteps =>
       req[r].op # "fit" /\ req[r].detector \in Detectors
  /\ pc[r] \in Critical \ {"nextVersion"} => req[r].series \in SafeSeries
  /\ status[r] # Pending <=> pc[r] = "done"

\* A save works on the version after the latest one, and the files it has
\* gone past hold what it wrote.
SaveOf(r) ==
  LET n == NS(r) IN
    /\ pc[r] \in Saving => ver[r] \in Versions /\ ver[r] = index[n].latest + 1
    /\ pc[r] = "release" => ver[r] \in Published(n)
    /\ pc[r] \in AfterMkdir => ver[r] \in dirs[n]
    /\ pc[r] \in AfterModel => model[n][ver[r]] = r
    /\ pc[r] \in AfterMeta => meta[n][ver[r]] = r
    /\ pc[r] \in AfterDraft => draft[r] = Publish(index[n], ver[r])
    /\ pc[r] = "replace" => tmp[n] = draft[r]

\* Whoever wrote a file was a fit of that namespace and version, and will not
\* change its mind about either.
Authors ==
  \A n \in Namespaces, v \in Versions :
    \A r \in {model[n][v], meta[n][v]} \cap Requests :
      /\ req[r].op = "fit"
      /\ NS(r) = n
      /\ ver[r] = v
      /\ pc[r] \in AfterModel \cup Ended

StoreInv ==
  /\ TypeOK
  /\ LockDiscipline
  /\ \A r \in Requests : RoleOf(r) /\ SaveOf(r)
  /\ Authors
  /\ Contiguous
  /\ PublishedComplete
  /\ FitDurable

\* A read of the latest version, or of one that was published when the read
\* was submitted: what LatestServed and PinnedServed speak about.
Served(r) ==
  \/ /\ FromPublished(r)
     /\ IF req[r].want = 0 THEN ver[r] >= floor[r] ELSE ver[r] = req[r].want
  \/ status[r] = 404 /\ floor[r] = 0

\* What a read has resolved and gathered at each of its control points.
Resolved == {"dir", "files", "loadModel", "loadMeta", "again"}
ReadOf(r) ==
  LET n == NS(r) IN
    /\ pc[r] \in {"files", "loadModel"} => req[r].op \in {"predict", "detail"}
    /\ pc[r] = "again" => req[r].op = "detail"
    /\ pc[r] \in {"idle", "resolve", "dir", "files", "loadModel"} => prov[r] = {}
    /\ n \in Namespaces /\ pc[r] # "idle" => floor[r] <= index[n].latest
    /\ n \in Namespaces /\ req[r].want <= floor[r] =>
         /\ pc[r] \in Resolved =>
              /\ ver[r] \in Published(n)
              /\ IF req[r].want = 0 THEN ver[r] >= floor[r]
                                    ELSE ver[r] = req[r].want
         /\ pc[r] = "loadMeta" =>
              prov[r] = IF req[r].op = "predict" THEN {model[n][ver[r]]} ELSE {}
         /\ pc[r] = "again" => prov[r] = {model[n][ver[r]]}
         /\ pc[r] = "done" /\ req[r].op # "fit" => Served(r)

ReadsInv == \A r \in Requests : ReadOf(r)

-----------------------------------------------------------------------------
(* What the documentation claims and the code does not do *)

\* ARCHITECTURE.md, section 17: a missing metadata.json is "mapped to 404 on
\* read/predict paths".
MissingIsNotFound ==
  [][\A r \in Requests :
       /\ req[r].op = "predict"
       /\ pc[r] \in {"files", "loadMeta"}
       /\ meta[NS(r)][ver[r]] = NoFile
       /\ pc'[r] = "done"
       => status'[r] = 404]_vars

\* ARCHITECTURE.md, section 16: metadata.json is "written once per version,
\* never mutated".
MetadataWrittenOnce ==
  [][\A n \in Namespaces, v \in Versions :
       meta[n][v] \in Requests => meta'[n][v] = meta[n][v]]_vars
=============================================================================
