---------------------------- MODULE Antiplagiat ----------------------------
(***************************************************************************)
(* The file service and the analysis service of AntiplagiatSystem/ over    *)
(* the database and the upload directory they share.                       *)
(*                                                                         *)
(* Each service is one process with one pqxx::connection for all its HTTP  *)
(* threads.  A connection takes one transaction at a time: the constructor *)
(* of a second pqxx::work throws, and every transaction here is a local    *)
(* variable, which a return or an exception ends.  A step is one           *)
(* transaction's begin or its end, or one use of a file.  What a           *)
(* transaction does is shown at its end, where it commits: only the file   *)
(* service inserts works, one transaction at a time.                       *)
(*                                                                         *)
(* A work is named by the upload that inserted its row: student, name and  *)
(* path of the row are the upload's.  A hash is the content it is of.      *)
(*                                                                         *)
(* Outside the model: requests that are refused before anything is         *)
(* touched; assignments; what a list of works or reports says.             *)
(***************************************************************************)
EXTENDS Naturals, FiniteSets

CONSTANTS
    Uploads,       \* requests to the file service: POST /upload
    Readers,       \* GET /files/{id}, /works, /reports
    Analyses,      \* requests to the analysis service: POST /analyze, GET /reports/{id}
    Nobody,        \* a connection without a transaction
    Lost,          \* a connection that is broken
    NoMatch,       \* the matched work id -1
    NoPath,        \* no file yet
    Empty,         \* the content of a file that was opened and not written
    Garbled,       \* that of a file two uploads wrote over each other
    Student, Content, Name,  \* of each upload; the name is "<student>_<filename>"
    MaxClock,      \* bound: milliseconds
    MaxFaults      \* bound: failures and crashes

Handlers == Uploads \cup Readers \cup Analyses
Services == {"files", "analysis"}
Paths == (0 .. MaxClock) \X {Name[u] : u \in Uploads}
Bytes == {Content[u] : u \in Uploads} \cup {Empty, Garbled}

ASSUME RequestsAssumption ==
    /\ Uploads \cap Readers = {} /\ Uploads \cap Analyses = {} /\ Readers \cap Analyses = {}
    /\ Nobody \notin Handlers /\ Lost \notin Handlers /\ Nobody # Lost
    /\ NoMatch \notin Uploads

ASSUME DataAssumption ==
    /\ DOMAIN Student = Uploads /\ DOMAIN Content = Uploads /\ DOMAIN Name = Uploads
    /\ \A u \in Uploads : Content[u] \notin {Empty, Garbled}
    /\ MaxClock \in Nat /\ MaxFaults \in Nat
    /\ NoPath \notin Paths

VARIABLES
    clock,         \* system_clock, in milliseconds
    files,         \* upload_dir: path -> content, NoPath where there is no file
    works,         \* table works: id -> [hash, status]
    reports,       \* table reports: work id -> the matched work
    conn,          \* of each service: the handler whose transaction is registered
    pc,            \* what each handler does next
    path,          \* filepath of each upload
    seen,          \* file_hash of an upload, the bytes a reader sends
    target,        \* the work id a request is about; for an upload, the one returned
    found,         \* match of each analysis
    reply,         \* status code each client got
    short,         \* history: uploads whose write failed
    faults

tables == <<works, reports>>
disk == <<clock, files, path>>
vars == <<disk, tables, conn, pc, seen, target, found, reply, short, faults>>

Nothing == [w \in {} |-> NoMatch]

Init ==
    /\ clock = 0
    /\ files = [p \in Paths |-> NoPath]
    /\ works = Nothing
    /\ reports = Nothing
    /\ conn = [s \in Services |-> Nobody]
    /\ pc = [t \in Handlers |-> "idle"]
    /\ path = [u \in Uploads |-> NoPath]
    /\ seen = [t \in Uploads \cup Readers |-> Empty]
    /\ target = [t \in Handlers |-> NoMatch]
    /\ found = [a \in Analyses |-> NoMatch]
    /\ reply = [t \in Handlers |-> "none"]
    /\ short = {}
    /\ faults = 0

-----------------------------------------------------------------------------
(* Transactions.                                                             *)

Service(t) == IF t \in Analyses THEN "analysis" ELSE "files"

InTransaction == {"looking", "listing", "checking", "saving", "finding", "reporting"}

(* What a handler is about to begin a transaction for.                       *)
Beginning(t) ==
    \/ pc[t] = "idle" /\ t \notin Uploads
    \/ pc[t] \in {"save", "find", "report"}

Begins(t, from, to) ==
    /\ pc[t] = from
    /\ conn[Service(t)] = Nobody
    /\ conn' = [conn EXCEPT ![Service(t)] = t]
    /\ pc' = [pc EXCEPT ![t] = to]

Ends(t, from) ==
    /\ pc[t] = from
    /\ conn' = [conn EXCEPT ![Service(t)] = Nobody]

Answers(t, status) ==
    /\ pc' = [pc EXCEPT ![t] = "done"]
    /\ reply' = [reply EXCEPT ![t] = status]

(* find_similar_works() catches the exception and returns no works,          *)
(* report_exists() catches it and says no; the others throw it on, and the   *)
(* client gets a 500.                                                        *)
Caught(t) ==
    \/ /\ pc[t] \in {"find", "finding"}
       /\ pc' = [pc EXCEPT ![t] = "report"]
       /\ UNCHANGED reply
    \/ /\ pc[t] = "checking" \/ (pc[t] = "idle" /\ t \in Analyses)
       /\ Answers(t, "404")
    \/ pc[t] \notin {"find", "finding", "checking"} /\ Answers(t, "500")

(* The connection is taken or broken.                                        *)
Refused(t) ==
    /\ Beginning(t)
    /\ conn[Service(t)] # Nobody
    /\ Caught(t)
    /\ UNCHANGED <<disk, tables, conn, seen, target, found, short, faults>>

Fault == faults < MaxFaults /\ faults' = faults + 1

(* A statement throws, or the connection breaks, for good.                   *)
Fails(t) ==
    /\ Fault
    /\ pc[t] \in InTransaction
    /\ \E c \in {Nobody, Lost} : conn' = [conn EXCEPT ![Service(t)] = c]
    /\ Caught(t)
    /\ UNCHANGED <<disk, tables, seen, target, found, short>>

(* The process dies and is started again, with a new connection.             *)
Crash(service) ==
    /\ Fault
    /\ conn' = [conn EXCEPT ![service] = Nobody]
    /\ pc' = [t \in Handlers |->
                IF Service(t) = service /\ pc[t] # "idle" THEN "done" ELSE pc[t]]
    /\ UNCHANGED <<disk, tables, seen, target, found, reply, short>>

-----------------------------------------------------------------------------
(* handle_upload.                                                            *)

Tick ==
    /\ clock < MaxClock
    /\ clock' = clock + 1
    /\ UNCHANGED <<files, path, tables, conn, pc, seen, target, found, reply, short, faults>>

(* generate_filename, and an ofstream that creates or truncates the file.    *)
Open(u) ==
    /\ pc[u] = "idle"
    /\ path' = [path EXCEPT ![u] = <<clock, Name[u]>>]
    /\ files' = [files EXCEPT ![<<clock, Name[u]>>] = Empty]
    /\ pc' = [pc EXCEPT ![u] = "write"]
    /\ UNCHANGED <<clock, tables, conn, seen, target, found, reply, short, faults>>

(* What the file holds when an upload has written its content from the start *)
(* and another upload may have done so before.                               *)
Written(u) ==
    IF files[path[u]] \in {Empty, Content[u]} THEN {Content[u]} ELSE {Content[u], Garbled}

Write(u) ==
    /\ pc[u] = "write"
    /\ \E bytes \in Written(u) : files' = [files EXCEPT ![path[u]] = bytes]
    /\ pc' = [pc EXCEPT ![u] = "hash"]
    /\ UNCHANGED <<clock, path, tables, conn, seen, target, found, reply, short, faults>>

(* Nobody asks the stream whether write() and close() succeeded.             *)
WriteFails(u) ==
    /\ Fault
    /\ pc[u] = "write"
    /\ short' = short \cup {u}
    /\ pc' = [pc EXCEPT ![u] = "hash"]
    /\ UNCHANGED <<disk, tables, conn, seen, target, found, reply>>

(* Mutant: the hash is of the content in the request.                        *)
Hash_OfRequest(u) ==
    /\ pc[u] = "hash"
    /\ seen' = [seen EXCEPT ![u] = Content[u]]
    /\ pc' = [pc EXCEPT ![u] = "save"]
    /\ UNCHANGED <<disk, tables, conn, target, found, reply, short, faults>>

(* The file is read back.                                                    *)
Hash(u) ==
    /\ pc[u] = "hash"
    /\ seen' = [seen EXCEPT ![u] = files[path[u]]]
    /\ pc' = [pc EXCEPT ![u] = "save"]
    /\ UNCHANGED <<disk, tables, conn, target, found, reply, short, faults>>

(* The file cannot be opened or digested.                                    *)
HashThrows(u) ==
    /\ Fault
    /\ pc[u] = "hash"
    /\ Answers(u, "500")
    /\ UNCHANGED <<disk, tables, conn, seen, target, found, short>>

BeginSave(u) ==
    /\ Begins(u, "save", "saving")
    /\ UNCHANGED <<disk, tables, seen, target, found, reply, short, faults>>

(* Mutant: the student's own work is looked up.                              *)
Existing_ByStudent(u) == {w \in DOMAIN works : Student[w] = Student[u]}

Existing(u) == {w \in DOMAIN works : works[w].hash = seen[u]}

(* Mutant: the students are not compared.                                    *)
Saved_AnyStudent(u) ==
    IF Existing(u) = {}
    THEN [w \in DOMAIN works \cup {u} |->
            IF w = u THEN [hash |-> seen[u], status |-> "uploaded"] ELSE works[w]]
    ELSE [w \in DOMAIN works |->
            IF w \in Existing(u)
            THEN [works[w] EXCEPT !.status = "duplicate_detected"] ELSE works[w]]

(* The row that has the hash is marked when it is another student's; without *)
(* one a row is inserted.                                                    *)
Saved(u) ==
    IF Existing(u) = {}
    THEN [w \in DOMAIN works \cup {u} |->
            IF w = u THEN [hash |-> seen[u], status |-> "uploaded"] ELSE works[w]]
    ELSE [w \in DOMAIN works |->
            IF w \in Existing(u) /\ Student[w] # Student[u]
            THEN [works[w] EXCEPT !.status = "duplicate_detected"] ELSE works[w]]

CommitSave(u) ==
    /\ Ends(u, "saving")
    /\ works' = Saved(u)
    /\ \E w \in (IF Existing(u) = {} THEN {u} ELSE Existing(u)) :
          target' = [target EXCEPT ![u] = w]
    /\ Answers(u, "201")
    /\ UNCHANGED <<disk, reports, seen, found, short, faults>>

(* The connection breaks while it commits, after the server has done so.     *)
CommitInDoubt(u) ==
    /\ Fault
    /\ pc[u] = "saving"
    /\ works' = Saved(u)
    /\ conn' = [conn EXCEPT !["files"] = Lost]
    /\ Answers(u, "500")
    /\ UNCHANGED <<disk, reports, seen, target, found, short>>

-----------------------------------------------------------------------------
(* handle_get_file, and get_work_info of handle_analyze.                     *)

BeginLookup(t, w) ==
    /\ Begins(t, "idle", "looking")
    /\ target' = [target EXCEPT ![t] = w]
    /\ UNCHANGED <<disk, tables, seen, found, reply, short, faults>>

EndLookup(t) ==
    /\ Ends(t, "looking")
    /\ IF target[t] \in DOMAIN works
       THEN /\ pc' = [pc EXCEPT ![t] = IF t \in Readers THEN "read" ELSE "find"]
            /\ UNCHANGED reply
       ELSE Answers(t, "500")
    /\ UNCHANGED <<disk, tables, seen, target, found, short, faults>>

(* The path of a row exists: nothing removes a file.                         *)
ReadFile(r) ==
    /\ pc[r] = "read"
    /\ seen' = [seen EXCEPT ![r] = files[path[target[r]]]]
    /\ Answers(r, "200")
    /\ UNCHANGED <<disk, tables, conn, target, found, short, faults>>

(* exists() throws, or the file cannot be opened.                            *)
ReadFails(r) ==
    /\ Fault
    /\ pc[r] = "read"
    /\ Answers(r, "500")
    /\ UNCHANGED <<disk, tables, conn, seen, target, found, short>>

(* handle_get_works and handle_get_reports: one query.                       *)
BeginList(r) ==
    /\ Begins(r, "idle", "listing")
    /\ UNCHANGED <<disk, tables, seen, target, found, reply, short, faults>>

EndList(r) ==
    /\ Ends(r, "listing")
    /\ Answers(r, "200")
    /\ UNCHANGED <<disk, tables, seen, target, found, short, faults>>

(* handle_get_report: report_exists.                                         *)
BeginCheck(a) ==
    /\ Begins(a, "idle", "checking")
    /\ UNCHANGED <<disk, tables, seen, target, found, reply, short, faults>>

(* Then get_report, a transaction of its own, which is left out: it never    *)
(* comes to that (NothingIsReported in AntiplagiatProofs).                   *)
EndCheck(a, w) ==
    /\ Ends(a, "checking")
    /\ Answers(a, IF w \in DOMAIN reports THEN "200" ELSE "404")
    /\ UNCHANGED <<disk, tables, seen, target, found, short, faults>>

-----------------------------------------------------------------------------
(* handle_analyze, after get_work_info.                                      *)

BeginFind(a) ==
    /\ Begins(a, "find", "finding")
    /\ UNCHANGED <<disk, tables, seen, target, found, reply, short, faults>>

Similar(w) ==
    {v \in DOMAIN works : /\ works[v].hash = works[w].hash
                          /\ Student[v] # Student[w]
                          /\ works[v].status # "duplicate_detected"}

(* The first row of the result is the match.                                 *)
EndFind(a) ==
    /\ Ends(a, "finding")
    /\ \E m \in (IF Similar(target[a]) = {} THEN {NoMatch} ELSE Similar(target[a])) :
          found' = [found EXCEPT ![a] = m]
    /\ pc' = [pc EXCEPT ![a] = "report"]
    /\ UNCHANGED <<disk, tables, seen, target, reply, short, faults>>

BeginReport(a) ==
    /\ Begins(a, "report", "reporting")
    /\ UNCHANGED <<disk, tables, seen, target, found, reply, short, faults>>

(* Mutant: NULL is stored when there is no match.                            *)
MatchExists_OrNull(a) == TRUE

(* reports.matched_work_id REFERENCES works(id).                             *)
MatchExists(a) == found[a] \in DOMAIN works

(* The report replaces an older one, and the work's status is set; or the    *)
(* INSERT violates the foreign key and nothing changes.                      *)
EndReport(a) ==
    /\ Ends(a, "reporting")
    /\ LET w == target[a]
           status == IF found[a] = NoMatch THEN "checked_ok" ELSE "plagiarism_found"
       IN IF MatchExists(a)
          THEN /\ reports' = [v \in DOMAIN reports \cup {w} |->
                                IF v = w THEN found[a] ELSE reports[v]]
               /\ works' = [works EXCEPT ![w].status = status]
               /\ Answers(a, "200")
          ELSE Answers(a, "500") /\ UNCHANGED tables
    /\ UNCHANGED <<disk, seen, target, found, short, faults>>

-----------------------------------------------------------------------------
UploadStep(u) ==
    \/ Open(u) \/ Write(u) \/ WriteFails(u) \/ Hash(u) \/ HashThrows(u)
    \/ BeginSave(u) \/ CommitSave(u) \/ CommitInDoubt(u)

ReaderStep(r) == ReadFile(r) \/ ReadFails(r) \/ BeginList(r) \/ EndList(r)

AnalysisStep(a) ==
    \/ BeginFind(a) \/ EndFind(a) \/ BeginReport(a) \/ EndReport(a)
    \/ BeginCheck(a) \/ \E w \in Uploads : EndCheck(a, w)

Next ==
    \/ Tick
    \/ \E u \in Uploads : UploadStep(u)
    \/ \E t \in Readers \cup Analyses : EndLookup(t) \/ \E w \in Uploads : BeginLookup(t, w)
    \/ \E r \in Readers : ReaderStep(r)
    \/ \E a \in Analyses : AnalysisStep(a)
    \/ \E t \in Handlers : Refused(t) \/ Fails(t)
    \/ \E service \in Services : Crash(service)

Spec == Init /\ [][Next]_vars

-----------------------------------------------------------------------------
(* Properties.                                                               *)

Statuses == {"uploaded", "duplicate_detected", "checked_ok", "plagiarism_found"}

Held == \A t \in Handlers : pc[t] \in InTransaction <=> conn[Service(t)] = t

(* Types; and a connection is held exactly by a handler that is inside its   *)
(* transaction, so nothing is left registered when a handler is done.        *)
TypeOK ==
    /\ clock \in 0 .. MaxClock
    /\ files \in [Paths -> Bytes \cup {NoPath}]
    /\ DOMAIN works \subseteq Uploads
    /\ works \in [DOMAIN works -> [hash : Bytes, status : Statuses]]
    /\ DOMAIN reports \subseteq Uploads
    /\ conn \in [Services -> Handlers \cup {Nobody, Lost}]
    /\ pc \in [Handlers -> InTransaction \cup
               {"idle", "write", "hash", "save", "read", "find", "report", "done"}]
    /\ path \in [Uploads -> Paths \cup {NoPath}]
    /\ seen \in [Uploads \cup Readers -> Bytes]
    /\ target \in [Handlers -> Uploads \cup {NoMatch}]
    /\ found \in [Analyses -> Uploads \cup {NoMatch}]
    /\ reply \in [Handlers -> {"none", "200", "201", "404", "500"}]
    /\ short \subseteq Uploads
    /\ faults \in 0 .. MaxFaults
    /\ Held

(* Another upload opened the same file: same millisecond, same name.         *)
Shared(u) == \E v \in Uploads \ {u} : path[v] = path[u] /\ path[u] # NoPath

Tampered(u) == u \in short \/ Shared(u)

(* calculate_file_hash: a work's file is on disk and has the hash of its     *)
(* row, and a reader is sent nothing else, also after failed writes and      *)
(* crashes; only an upload to the same path can break this.                  *)
FilesMatchHashes ==
    /\ \A w \in DOMAIN works : ~Shared(w) => files[path[w]] = works[w].hash
    /\ \A r \in Readers : reply[r] = "200" /\ target[r] # NoMatch =>
          \/ seen[r] = works[target[r]].hash
          \/ Shared(target[r])

(* handle_upload: whoever gets a 201 can fetch what was uploaded under the   *)
(* id that came with it, whether the row is new or somebody else's.          *)
AcknowledgedIsServed ==
    \A u \in Uploads : reply[u] = "201" =>
        LET w == target[u] IN
        \/ w \in DOMAIN works /\ files[path[w]] = Content[u]
        \/ Tampered(u) \/ Tampered(w)

(* save_work: a work is marked as a duplicate only if another student sent   *)
(* the same content, not for a student's own retry after a 500; failed       *)
(* writes and shared paths aside, which can make two contents look equal.    *)
NoFalseAccusation ==
    \A w \in DOMAIN works : works[w].status = "duplicate_detected" =>
        \E u \in Uploads :
            /\ Student[u] # Student[w] /\ path[u] # NoPath
            /\ Content[u] = Content[w] \/ Tampered(u) \/ Tampered(w)

(* save_work and save_report: once a copy has been acknowledged to another   *)
(* student the work is marked, and no analysis on the other connection,      *)
(* begun before or after, takes the mark away.                               *)
CopiesAreFlagged ==
    \A u \in Uploads : reply[u] = "201" /\ Student[target[u]] # Student[u] =>
        works[target[u]].status = "duplicate_detected"

(* README.md: when an analysis is through, a report has been formed.         *)
AnalysesAreReported ==
    [][\A a \in Analyses :
          pc[a] = "reporting" /\ pc'[a] = "done" /\ faults' = faults
          => target[a] \in DOMAIN reports']_vars

(* README.md: an identical hash at another student is plagiarism found.      *)
PlagiarismIsFound ==
    [][\A a \in Analyses :
          /\ pc[a] = "finding" /\ pc'[a] = "report" /\ faults' = faults
          /\ \E u \in Uploads : /\ reply[u] = "201" /\ target[u] = target[a]
                                /\ Student[u] # Student[target[a]]
          => found'[a] # NoMatch]_vars
=============================================================================
