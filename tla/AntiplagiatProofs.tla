------------------------- MODULE AntiplagiatProofs -------------------------
(***************************************************************************)
(* Proofs about Antiplagiat, for any uploads, readers and analyses and any *)
(* number of failures and crashes.                                         *)
(*                                                                         *)
(* Inv1 is what the control keeps: types, connections, who has a path and  *)
(* who is on record, and that hashes are unique, which NothingIsReported   *)
(* rests on.  With it most steps are Quiet, and the lemmas about contents  *)
(* and answers (Inv2) look only at the few that are not.                   *)
(***************************************************************************)
EXTENDS Antiplagiat, TLAPS

(* The types of TypeOK; the rest of it is Held.                              *)
Types ==
    /\ clock \in 0 .. MaxClock
    /\ files \in [Paths -> Bytes \cup {NoPath}]
    /\ DOMAIN works \subseteq Uploads
    /\ works \in [DOMAIN works -> [hash : Bytes, status : Statuses]]
    /\ DOMAIN reports \subseteq Uploads
    /\ conn \in [Services -> Handlers \cup {Nobody, Lost}]
    /\ pc \in [Handlers -> InTransaction \cup
               {"idle", "write", "hash", "save", "read", "find", "report", "done"}]
    /\ path \in [Uploads -> Paths \cup {NoPath}]
    /\ seen \in [Uploads \cup Readers -> Bytes]
    /\ target \in [Handlers -> Uploads \cup {NoMatch}]
    /\ found \in [Analyses -> Uploads \cup {NoMatch}]
    /\ reply \in [Handlers -> {"none", "200", "201", "404", "500"}]
    /\ short \subseteq Uploads
    /\ faults \in 0 .. MaxFaults

(* An upload that has begun has a path with a file; a work's upload is done; *)
(* who has looked a work up, or was given its id, is about one that exists;  *)
(* a reader that asks for a list is about none.                              *)
Located ==
    /\ \A u \in Uploads :
          /\ pc[u] \in {"idle", "write", "hash", "save", "saving", "done"}
          /\ pc[u] = "idle" => path[u] = NoPath
          /\ pc[u] # "idle" => path[u] \in Paths /\ files[path[u]] \in Bytes
    /\ \A w \in DOMAIN works : pc[w] = "done"
    /\ \A t \in Readers \cup Analyses :
          pc[t] \in {"read", "find", "finding", "report", "reporting"}
             => target[t] \in DOMAIN works
    /\ \A t \in Handlers : reply[t] # "none" => pc[t] = "done"
    /\ \A u \in Uploads : reply[u] \in {"200", "201"} => target[u] \in DOMAIN works
    /\ \A r \in Readers :
          /\ pc[r] \in {"idle", "listing"} => target[r] = NoMatch
          /\ reply[r] = "200" /\ target[r] # NoMatch => target[r] \in DOMAIN works

(* find_similar_works never finds a match and save_report never stores a     *)
(* report, so no client of the analysis service gets a 200.                  *)
NothingIsReported ==
    /\ DOMAIN reports = {}
    /\ \A a \in Analyses : found[a] = NoMatch /\ reply[a] # "200"

(* The UNIQUE constraint, which save_work keeps by its SELECT, and what it   *)
(* entails.                                                                  *)
Unreported ==
    /\ \A v, w \in DOMAIN works : works[v].hash = works[w].hash => v = w
    /\ NothingIsReported

Inv1 == Types /\ Held /\ Located /\ Unreported

(* Types are kept.                                                           *)
LEMMA TypesStep == Inv1 /\ [Next]_vars => Types'
<1> SUFFICES ASSUME Inv1, [Next]_vars PROVE Types'
  OBVIOUS
<1> USE RequestsAssumption, DataAssumption DEF disk, tables, Inv1
<1> USE DEF Handlers, Services, Service, InTransaction
<1>1. CASE Tick
  BY <1>1 DEF Tick, Types
<1>2. ASSUME NEW u \in Uploads, Open(u) PROVE Types'
  BY <1>2 DEF Open, Paths, Bytes, Types
<1>3. ASSUME NEW u \in Uploads, Write(u) PROVE Types'
  <2>1. Written(u) \subseteq Bytes
    BY DEF Written, Bytes
  <2> QED
    BY <1>3, <2>1 DEF Write, Types
<1>4. ASSUME NEW u \in Uploads, WriteFails(u) PROVE Types'
  BY <1>4 DEF WriteFails, Fault, Types
<1>5. ASSUME NEW u \in Uploads, Hash(u) PROVE Types'
  BY <1>5 DEF Hash, Located, Types
<1>6. ASSUME NEW u \in Uploads, HashThrows(u) PROVE Types'
  BY <1>6 DEF HashThrows, Fault, Answers, Types
<1>7. ASSUME NEW u \in Uploads, BeginSave(u) PROVE Types'
  BY <1>7 DEF BeginSave, Begins, Types
<1>8. ASSUME NEW u \in Uploads, CommitSave(u) PROVE Types'
  BY <1>8 DEF CommitSave, Ends, Answers, Saved, Existing, Statuses, Types
<1>9. ASSUME NEW u \in Uploads, CommitInDoubt(u) PROVE Types'
  BY <1>9 DEF CommitInDoubt, Fault, Answers, Saved, Existing, Statuses, Types
<1>10. ASSUME NEW t \in Readers \cup Analyses, EndLookup(t) PROVE Types'
  BY <1>10 DEF EndLookup, Ends, Answers, Types
<1>11. ASSUME NEW t \in Readers \cup Analyses, NEW w \in Uploads, BeginLookup(t, w) PROVE Types'
  BY <1>11 DEF BeginLookup, Begins, Types
<1>12. ASSUME NEW r \in Readers, ReadFile(r) PROVE Types'
  BY <1>12 DEF ReadFile, Answers, Located, Types
<1>13. ASSUME NEW a \in Analyses, BeginFind(a) PROVE Types'
  BY <1>13 DEF BeginFind, Begins, Types
<1>14. ASSUME NEW a \in Analyses, EndFind(a) PROVE Types'
  BY <1>14 DEF EndFind, Ends, Similar, Types
<1>15. ASSUME NEW a \in Analyses, BeginReport(a) PROVE Types'
  BY <1>15 DEF BeginReport, Begins, Types
<1>16. ASSUME NEW a \in Analyses, EndReport(a) PROVE Types'
  BY <1>16 DEF EndReport, Ends, Answers, MatchExists, Unreported, NothingIsReported, Types
<1>17. ASSUME NEW t \in Handlers, Refused(t) PROVE Types'
  BY <1>17 DEF Refused, Caught, Answers, Beginning, Types
<1>18. ASSUME NEW t \in Handlers, Fails(t) PROVE Types'
  BY <1>18 DEF Fails, Fault, Caught, Answers, Types
<1>19. ASSUME NEW service \in Services, Crash(service) PROVE Types'
  BY <1>19 DEF Crash, Fault, Types
<1>20. ASSUME NEW r \in Readers, BeginList(r) PROVE Types'
  BY <1>20 DEF BeginList, Begins, Types
<1>21. ASSUME NEW r \in Readers, EndList(r) PROVE Types'
  BY <1>21 DEF EndList, Ends, Answers, Types
<1>22. ASSUME NEW a \in Analyses, BeginCheck(a) PROVE Types'
  BY <1>22 DEF BeginCheck, Begins, Types
<1>23. ASSUME NEW a \in Analyses, NEW w \in Uploads, EndCheck(a, w) PROVE Types'
  BY <1>23 DEF EndCheck, Ends, Answers, Types
<1>24. ASSUME NEW r \in Readers, ReadFails(r) PROVE Types'
  BY <1>24 DEF ReadFails, Fault, Answers, Located, Types
<1>25. CASE UNCHANGED vars
  BY <1>25 DEF vars, Types
<1> QED
  BY <1>1, <1>2, <1>3, <1>4, <1>5, <1>6, <1>7, <1>8, <1>9, <1>10, <1>11, <1>12,
     <1>13, <1>14, <1>15, <1>16, <1>17, <1>18, <1>19, <1>20, <1>21, <1>22, <1>23, <1>24, <1>25
     DEF Next, UploadStep, ReaderStep, AnalysisStep

(* A connection is taken and given back by its handler.                      *)
LEMMA HeldStep == Inv1 /\ [Next]_vars => Held'
<1> SUFFICES ASSUME Inv1, [Next]_vars PROVE Held'
  OBVIOUS
<1> USE RequestsAssumption, DataAssumption DEF disk, tables, Inv1
<1> USE DEF Handlers, Services, Service, InTransaction
<1>1. CASE Tick
  BY <1>1 DEF Tick, Held, Types
<1>2. ASSUME NEW u \in Uploads, Open(u) PROVE Held'
  BY <1>2 DEF Open, Held, Types
<1>3. ASSUME NEW u \in Uploads, Write(u) PROVE Held'
  BY <1>3 DEF Write, Held, Types
<1>4. ASSUME NEW u \in Uploads, WriteFails(u) PROVE Held'
  BY <1>4 DEF WriteFails, Fault, Held, Types
<1>5. ASSUME NEW u \in Uploads, Hash(u) PROVE Held'
  BY <1>5 DEF Hash, Held, Types
<1>6. ASSUME NEW u \in Uploads, HashThrows(u) PROVE Held'
  BY <1>6 DEF HashThrows, Fault, Answers, Held, Types
<1>7. ASSUME NEW u \in Uploads, BeginSave(u) PROVE Held'
  BY <1>7 DEF BeginSave, Begins, Held, Types
<1>8. ASSUME NEW u \in Uploads, CommitSave(u) PROVE Held'
  BY <1>8 DEF CommitSave, Ends, Answers, Held, Types
<1>9. ASSUME NEW u \in Uploads, CommitInDoubt(u) PROVE Held'
  BY <1>9 DEF CommitInDoubt, Fault, Answers, Held, Types
<1>10. ASSUME NEW t \in Readers \cup Analyses, EndLookup(t) PROVE Held'
  BY <1>10 DEF EndLookup, Ends, Answers, Held, Types
<1>11. ASSUME NEW t \in Readers \cup Analyses, NEW w \in Uploads, BeginLookup(t, w) PROVE Held'
  BY <1>11 DEF BeginLookup, Begins, Held, Types
<1>12. ASSUME NEW r \in Readers, ReadFile(r) PROVE Held'
  BY <1>12 DEF ReadFile, Answers, Held, Types
<1>13. ASSUME NEW a \in Analyses, BeginFind(a) PROVE Held'
  BY <1>13 DEF BeginFind, Begins, Held, Types
<1>14. ASSUME NEW a \in Analyses, EndFind(a) PROVE Held'
  BY <1>14 DEF EndFind, Ends, Held, Types
<1>15. ASSUME NEW a \in Analyses, BeginReport(a) PROVE Held'
  BY <1>15 DEF BeginReport, Begins, Held, Types
<1>16. ASSUME NEW a \in Analyses, EndReport(a) PROVE Held'
  BY <1>16 DEF EndReport, Ends, Answers, Held, Types
<1>17. ASSUME NEW t \in Handlers, Refused(t) PROVE Held'
  BY <1>17 DEF Refused, Caught, Answers, Beginning, Held, Types
<1>18. ASSUME NEW t \in Handlers, Fails(t) PROVE Held'
  BY <1>18 DEF Fails, Fault, Caught, Answers, Held, Types
<1>19. ASSUME NEW service \in Services, Crash(service) PROVE Held'
  BY <1>19 DEF Crash, Fault, Held, Types
<1>20. ASSUME NEW r \in Readers, BeginList(r) PROVE Held'
  BY <1>20 DEF BeginList, Begins, Held, Types
<1>21. ASSUME NEW r \in Readers, EndList(r) PROVE Held'
  BY <1>21 DEF EndList, Ends, Answers, Held, Types
<1>22. ASSUME NEW a \in Analyses, BeginCheck(a) PROVE Held'
  BY <1>22 DEF BeginCheck, Begins, Held, Types
<1>23. ASSUME NEW a \in Analyses, NEW w \in Uploads, EndCheck(a, w) PROVE Held'
  BY <1>23 DEF EndCheck, Ends, Answers, Held, Types
<1>24. ASSUME NEW r \in Readers, ReadFails(r) PROVE Held'
  BY <1>24 DEF ReadFails, Fault, Answers, Held, Types
<1>25. CASE UNCHANGED vars
  BY <1>25 DEF vars, Held, Types
<1> QED
  BY <1>1, <1>2, <1>3, <1>4, <1>5, <1>6, <1>7, <1>8, <1>9, <1>10, <1>11, <1>12,
     <1>13, <1>14, <1>15, <1>16, <1>17, <1>18, <1>19, <1>20, <1>21, <1>22, <1>23, <1>24, <1>25
     DEF Next, UploadStep, ReaderStep, AnalysisStep

(* Paths, rows and looked-up works stay in place.                            *)
LEMMA LocatedStep == Inv1 /\ [Next]_vars => Located'
<1> SUFFICES ASSUME Inv1, [Next]_vars PROVE Located'
  OBVIOUS
<1> USE RequestsAssumption, DataAssumption DEF disk, tables, Inv1
<1> USE DEF Handlers, Services, Service, InTransaction
<1>1. CASE Tick
  BY <1>1 DEF Tick, Located, Types
<1>2. ASSUME NEW u \in Uploads, Open(u) PROVE Located'
  <2>1. <<clock, Name[u]>> \in Paths
    BY DEF Paths, Types
  <2> QED
    BY <1>2, <2>1 DEF Open, Bytes, Located, Types
<1>3. ASSUME NEW u \in Uploads, Write(u) PROVE Located'
  <2>1. Written(u) \subseteq Bytes
    BY DEF Written, Bytes
  <2> QED
    BY <1>3, <2>1 DEF Write, Located, Types
<1>4. ASSUME NEW u \in Uploads, WriteFails(u) PROVE Located'
  BY <1>4 DEF WriteFails, Fault, Located, Types
<1>5. ASSUME NEW u \in Uploads, Hash(u) PROVE Located'
  BY <1>5 DEF Hash, Located, Types
<1>6. ASSUME NEW u \in Uploads, HashThrows(u) PROVE Located'
  BY <1>6 DEF HashThrows, Fault, Answers, Located, Types
<1>7. ASSUME NEW u \in Uploads, BeginSave(u) PROVE Located'
  BY <1>7 DEF BeginSave, Begins, Located, Types
<1>8. ASSUME NEW u \in Uploads, CommitSave(u) PROVE Located'
  BY <1>8 DEF CommitSave, Ends, Answers, Saved, Existing, Located, Types
<1>9. ASSUME NEW u \in Uploads, CommitInDoubt(u) PROVE Located'
  BY <1>9 DEF CommitInDoubt, Fault, Answers, Saved, Existing, Located, Types
<1>10. ASSUME NEW t \in Readers \cup Analyses, EndLookup(t) PROVE Located'
  BY <1>10 DEF EndLookup, Ends, Answers, Located, Types
<1>11. ASSUME NEW t \in Readers \cup Analyses, NEW w \in Uploads, BeginLookup(t, w) PROVE Located'
  BY <1>11 DEF BeginLookup, Begins, Located, Types
<1>12. ASSUME NEW r \in Readers, ReadFile(r) PROVE Located'
  BY <1>12 DEF ReadFile, Answers, Located, Types
<1>13. ASSUME NEW a \in Analyses, BeginFind(a) PROVE Located'
  BY <1>13 DEF BeginFind, Begins, Located, Types
<1>14. ASSUME NEW a \in Analyses, EndFind(a) PROVE Located'
  BY <1>14 DEF EndFind, Ends, Located, Types
<1>15. ASSUME NEW a \in Analyses, BeginReport(a) PROVE Located'
  BY <1>15 DEF BeginReport, Begins, Located, Types
<1>16. ASSUME NEW a \in Analyses, EndReport(a) PROVE Located'
  BY <1>16 DEF EndReport, Ends, Answers, MatchExists, Unreported, NothingIsReported, Located, Types
<1>17. ASSUME NEW t \in Handlers, Refused(t) PROVE Located'
  BY <1>17 DEF Refused, Caught, Answers, Beginning, Located, Types
<1>18. ASSUME NEW t \in Handlers, Fails(t) PROVE Located'
  BY <1>18 DEF Fails, Fault, Caught, Answers, Located, Types
<1>19. ASSUME NEW service \in Services, Crash(service) PROVE Located'
  BY <1>19 DEF Crash, Fault, Located, Types
<1>20. ASSUME NEW r \in Readers, BeginList(r) PROVE Located'
  BY <1>20 DEF BeginList, Begins, Located, Types
<1>21. ASSUME NEW r \in Readers, EndList(r) PROVE Located'
  BY <1>21 DEF EndList, Ends, Answers, Located, Types
<1>22. ASSUME NEW a \in Analyses, BeginCheck(a) PROVE Located'
  BY <1>22 DEF BeginCheck, Begins, Located, Types
<1>23. ASSUME NEW a \in Analyses, NEW w \in Uploads, EndCheck(a, w) PROVE Located'
  BY <1>23 DEF EndCheck, Ends, Answers, Located, Types
<1>24. ASSUME NEW r \in Readers, ReadFails(r) PROVE Located'
  BY <1>24 DEF ReadFails, Fault, Answers, Located, Types
<1>25. CASE UNCHANGED vars
  BY <1>25 DEF vars, Located, Types
<1> QED
  BY <1>1, <1>2, <1>3, <1>4, <1>5, <1>6, <1>7, <1>8, <1>9, <1>10, <1>11, <1>12,
     <1>13, <1>14, <1>15, <1>16, <1>17, <1>18, <1>19, <1>20, <1>21, <1>22, <1>23, <1>24, <1>25
     DEF Next, UploadStep, ReaderStep, AnalysisStep

(* Hashes stay unique; so no query finds a match and no INSERT a work.       *)
LEMMA UnreportedStep == Inv1 /\ [Next]_vars => Unreported'
<1> SUFFICES ASSUME Inv1, [Next]_vars PROVE Unreported'
  OBVIOUS
<1> USE RequestsAssumption, DataAssumption DEF disk, tables, Inv1
<1> USE DEF Handlers, Services, Service, InTransaction
<1>1. CASE Tick
  BY <1>1 DEF Tick, Unreported, NothingIsReported, Types
<1>2. ASSUME NEW u \in Uploads, Open(u) PROVE Unreported'
  BY <1>2 DEF Open, Unreported, NothingIsReported, Types
<1>3. ASSUME NEW u \in Uploads, Write(u) PROVE Unreported'
  BY <1>3 DEF Write, Unreported, NothingIsReported, Types
<1>4. ASSUME NEW u \in Uploads, WriteFails(u) PROVE Unreported'
  BY <1>4 DEF WriteFails, Fault, Unreported, NothingIsReported, Types
<1>5. ASSUME NEW u \in Uploads, Hash(u) PROVE Unreported'
  BY <1>5 DEF Hash, Unreported, NothingIsReported, Types
<1>6. ASSUME NEW u \in Uploads, HashThrows(u) PROVE Unreported'
  BY <1>6 DEF HashThrows, Fault, Answers, Unreported, NothingIsReported, Types
<1>7. ASSUME NEW u \in Uploads, BeginSave(u) PROVE Unreported'
  BY <1>7 DEF BeginSave, Begins, Unreported, NothingIsReported, Types
<1>8. ASSUME NEW u \in Uploads, CommitSave(u) PROVE Unreported'
  BY <1>8 DEF CommitSave, Ends, Answers, Saved, Existing, Unreported, NothingIsReported, Types
<1>9. ASSUME NEW u \in Uploads, CommitInDoubt(u) PROVE Unreported'
  BY <1>9 DEF CommitInDoubt, Fault, Answers, Saved, Existing, Unreported, NothingIsReported, Types
<1>10. ASSUME NEW t \in Readers \cup Analyses, EndLookup(t) PROVE Unreported'
  BY <1>10 DEF EndLookup, Ends, Answers, Unreported, NothingIsReported, Types
<1>11. ASSUME NEW t \in Readers \cup Analyses, NEW w \in Uploads, BeginLookup(t, w) PROVE Unreported'
  BY <1>11 DEF BeginLookup, Begins, Unreported, NothingIsReported, Types
<1>12. ASSUME NEW r \in Readers, ReadFile(r) PROVE Unreported'
  BY <1>12 DEF ReadFile, Answers, Unreported, NothingIsReported, Types
<1>13. ASSUME NEW a \in Analyses, BeginFind(a) PROVE Unreported'
  BY <1>13 DEF BeginFind, Begins, Unreported, NothingIsReported, Types
<1>14. ASSUME NEW a \in Analyses, EndFind(a) PROVE Unreported'
  BY <1>14 DEF EndFind, Ends, Similar, Located, Unreported, NothingIsReported, Types
<1>15. ASSUME NEW a \in Analyses, BeginReport(a) PROVE Unreported'
  BY <1>15 DEF BeginReport, Begins, Unreported, NothingIsReported, Types
<1>16. ASSUME NEW a \in Analyses, EndReport(a) PROVE Unreported'
  BY <1>16 DEF EndReport, Ends, Answers, MatchExists, Unreported, NothingIsReported, Types
<1>17. ASSUME NEW t \in Handlers, Refused(t) PROVE Unreported'
  BY <1>17 DEF Refused, Caught, Answers, Unreported, NothingIsReported, Types
<1>18. ASSUME NEW t \in Handlers, Fails(t) PROVE Unreported'
  BY <1>18 DEF Fails, Fault, Caught, Answers, Unreported, NothingIsReported, Types
<1>19. ASSUME NEW service \in Services, Crash(service) PROVE Unreported'
  BY <1>19 DEF Crash, Fault, Unreported, NothingIsReported, Types
<1>20. ASSUME NEW r \in Readers, BeginList(r) PROVE Unreported'
  BY <1>20 DEF BeginList, Begins, Unreported, NothingIsReported, Types
<1>21. ASSUME NEW r \in Readers, EndList(r) PROVE Unreported'
  BY <1>21 DEF EndList, Ends, Answers, Unreported, NothingIsReported, Types
<1>22. ASSUME NEW a \in Analyses, BeginCheck(a) PROVE Unreported'
  BY <1>22 DEF BeginCheck, Begins, Unreported, NothingIsReported, Types
<1>23. ASSUME NEW a \in Analyses, NEW w \in Uploads, EndCheck(a, w) PROVE Unreported'
  BY <1>23 DEF EndCheck, Ends, Answers, Unreported, NothingIsReported, Types
<1>24. ASSUME NEW r \in Readers, ReadFails(r) PROVE Unreported'
  BY <1>24 DEF ReadFails, Fault, Answers, Unreported, NothingIsReported, Types
<1>25. CASE UNCHANGED vars
  BY <1>25 DEF vars, Unreported, NothingIsReported, Types
<1> QED
  BY <1>1, <1>2, <1>3, <1>4, <1>5, <1>6, <1>7, <1>8, <1>9, <1>10, <1>11, <1>12,
     <1>13, <1>14, <1>15, <1>16, <1>17, <1>18, <1>19, <1>20, <1>21, <1>22, <1>23, <1>24, <1>25
     DEF Next, UploadStep, ReaderStep, AnalysisStep


-----------------------------------------------------------------------------
(* What the files and the rows hold.                                         *)

(* A step that touches no file, no row and no answer that counts.            *)
Quiet ==
    /\ UNCHANGED <<files, path, works, short>>
    /\ \A u \in Uploads :
          /\ seen'[u] = seen[u] /\ target'[u] = target[u]
          /\ pc'[u] \in {pc[u], "done"} \/ (pc[u] = "save" /\ pc'[u] = "saving")
          /\ pc[u] = "idle" => pc'[u] = "idle"
          /\ reply'[u] = "201" => reply[u] = "201"
    /\ \A r \in Readers : reply'[r] = "200" /\ target'[r] # NoMatch =>
          reply[r] = "200" /\ seen'[r] = seen[r] /\ target'[r] = target[r]

Loud ==
    \/ \E u \in Uploads : \/ Open(u) \/ Write(u) \/ WriteFails(u) \/ Hash(u)
                         \/ CommitSave(u) \/ CommitInDoubt(u)
    \/ \E r \in Readers : ReadFile(r)

(* Steps of analyses, transactions and crashes are quiet.                    *)
LEMMA QuietSteps == Inv1 /\ [Next]_vars => Quiet \/ Loud
<1> SUFFICES ASSUME Inv1, [Next]_vars, ~Loud PROVE Quiet
  OBVIOUS
<1> USE RequestsAssumption, DataAssumption DEF disk, tables, Inv1
<1> USE DEF Handlers, Services, Service, InTransaction
<1>1. CASE Tick
  BY <1>1 DEF Tick, Quiet, Types
<1>2. ASSUME NEW u \in Uploads, Open(u) PROVE Quiet
  BY <1>2 DEF Loud
<1>3. ASSUME NEW u \in Uploads, Write(u) PROVE Quiet
  BY <1>3 DEF Loud
<1>4. ASSUME NEW u \in Uploads, WriteFails(u) PROVE Quiet
  BY <1>4 DEF Loud
<1>5. ASSUME NEW u \in Uploads, Hash(u) PROVE Quiet
  BY <1>5 DEF Loud
<1>6. ASSUME NEW u \in Uploads, HashThrows(u) PROVE Quiet
  BY <1>6 DEF HashThrows, Fault, Answers, Quiet, Types
<1>7. ASSUME NEW u \in Uploads, BeginSave(u) PROVE Quiet
  BY <1>7 DEF BeginSave, Begins, Quiet, Types
<1>8. ASSUME NEW u \in Uploads, CommitSave(u) PROVE Quiet
  BY <1>8 DEF Loud
<1>9. ASSUME NEW u \in Uploads, CommitInDoubt(u) PROVE Quiet
  BY <1>9 DEF Loud
<1>10. ASSUME NEW t \in Readers \cup Analyses, EndLookup(t) PROVE Quiet
  BY <1>10 DEF EndLookup, Ends, Answers, Quiet, Types
<1>11. ASSUME NEW t \in Readers \cup Analyses, NEW w \in Uploads, BeginLookup(t, w) PROVE Quiet
  BY <1>11 DEF BeginLookup, Begins, Located, Quiet, Types
<1>12. ASSUME NEW r \in Readers, ReadFile(r) PROVE Quiet
  BY <1>12 DEF Loud
<1>13. ASSUME NEW a \in Analyses, BeginFind(a) PROVE Quiet
  BY <1>13 DEF BeginFind, Begins, Quiet, Types
<1>14. ASSUME NEW a \in Analyses, EndFind(a) PROVE Quiet
  BY <1>14 DEF EndFind, Ends, Quiet, Types
<1>15. ASSUME NEW a \in Analyses, BeginReport(a) PROVE Quiet
  BY <1>15 DEF BeginReport, Begins, Quiet, Types
<1>16. ASSUME NEW a \in Analyses, EndReport(a) PROVE Quiet
  BY <1>16 DEF EndReport, Ends, Answers, MatchExists, Unreported, NothingIsReported, Quiet, Types
<1>17. ASSUME NEW t \in Handlers, Refused(t) PROVE Quiet
  BY <1>17 DEF Refused, Caught, Answers, Beginning, Located, Quiet, Types
<1>18. ASSUME NEW t \in Handlers, Fails(t) PROVE Quiet
  BY <1>18 DEF Fails, Fault, Caught, Answers, Located, Quiet, Types
<1>19. ASSUME NEW service \in Services, Crash(service) PROVE Quiet
  BY <1>19 DEF Crash, Fault, Quiet, Types
<1>20. ASSUME NEW r \in Readers, BeginList(r) PROVE Quiet
  BY <1>20 DEF BeginList, Begins, Quiet, Types
<1>21. ASSUME NEW r \in Readers, EndList(r) PROVE Quiet
  BY <1>21 DEF EndList, Ends, Answers, Located, Quiet, Types
<1>22. ASSUME NEW a \in Analyses, BeginCheck(a) PROVE Quiet
  BY <1>22 DEF BeginCheck, Begins, Quiet, Types
<1>23. ASSUME NEW a \in Analyses, NEW w \in Uploads, EndCheck(a, w) PROVE Quiet
  BY <1>23 DEF EndCheck, Ends, Answers, Quiet, Types
<1>24. ASSUME NEW r \in Readers, ReadFails(r) PROVE Quiet
  BY <1>24 DEF ReadFails, Fault, Answers, Located, Quiet, Types
<1>25. CASE UNCHANGED vars
  BY <1>25 DEF vars, Quiet, Types
<1> QED
  BY <1>1, <1>2, <1>3, <1>4, <1>5, <1>6, <1>7, <1>8, <1>9, <1>10, <1>11, <1>12,
     <1>13, <1>14, <1>15, <1>16, <1>17, <1>18, <1>19, <1>20, <1>21, <1>22, <1>23, <1>24, <1>25
     DEF Next, UploadStep, ReaderStep, AnalysisStep

(* save_work keeps the rows there are, and what it inserts is the upload's.  *)
LEMMA SavedRows ==
    ASSUME Inv1, NEW u \in Uploads, pc[u] = "saving"
    PROVE  /\ DOMAIN works \subseteq DOMAIN Saved(u) /\ DOMAIN Saved(u) \subseteq DOMAIN works \cup {u}
           /\ \A w \in DOMAIN works : Saved(u)[w].hash = works[w].hash
           /\ \A w \in DOMAIN Saved(u) \ DOMAIN works :
                 w = u /\ Saved(u)[w] = [hash |-> seen[u], status |-> "uploaded"]
<1>1. CASE Existing(u) = {}
  <2>1. Saved(u) = [w \in DOMAIN works \cup {u} |->
                      IF w = u THEN [hash |-> seen[u], status |-> "uploaded"] ELSE works[w]]
    BY <1>1 DEF Saved
  <2>2. u \notin DOMAIN works
    BY DEF Inv1, Located
  <2> QED
    BY <2>1, <2>2
<1>2. CASE Existing(u) # {}
  <2>1. Saved(u) = [w \in DOMAIN works |->
                      IF w \in Existing(u) /\ Student[w] # Student[u]
                      THEN [works[w] EXCEPT !.status = "duplicate_detected"] ELSE works[w]]
    BY <1>2 DEF Saved
  <2>2. \A w \in DOMAIN works : works[w] \in [hash : Bytes, status : Statuses]
    BY DEF Inv1, Types
  <2>3. \A w \in DOMAIN works : [works[w] EXCEPT !.status = "duplicate_detected"].hash = works[w].hash
    BY <2>2
  <2> QED
    BY <2>1, <2>3
<1> QED
  BY <1>1, <1>2

(* Who has a path keeps it, so what is shared stays shared.                  *)
LEMMA PathsStay ==
    ASSUME Inv1, [Next]_vars
    PROVE  /\ \A u \in Uploads : path[u] # NoPath => path'[u] = path[u]
           /\ \A u \in Uploads : Shared(u) => Shared(u)'
           /\ \A u \in Uploads : Tampered(u) => Tampered(u)'
<1>1. \A u \in Uploads : path[u] # NoPath => path'[u] = path[u]
  BY QuietSteps DEF Quiet, Loud, Open, Write, WriteFails, Hash, CommitSave, CommitInDoubt,
     ReadFile, disk, Inv1, Types, Located
<1>2. \A u \in Uploads : Shared(u) => Shared(u)'
  BY <1>1 DEF Shared
<1>3. short \subseteq short'
  BY QuietSteps DEF Quiet, Loud, Open, Write, WriteFails, Hash, CommitSave, CommitInDoubt, ReadFile
<1> QED
  BY <1>1, <1>2, <1>3 DEF Tampered

(* Nobody but an upload itself writes to a file that it does not share.      *)
LEMMA OwnFile ==
    ASSUME Inv1, [Next]_vars, NEW u \in Uploads, pc[u] # "idle", ~Shared(u)', ~Write(u)
    PROVE  path'[u] = path[u] /\ files'[path[u]] = files[path[u]]
<1> USE RequestsAssumption, DataAssumption DEF disk, Inv1, Types
<1>1. path[u] \in Paths /\ path[u] # NoPath /\ path'[u] = path[u]
  BY PathsStay DEF Located
<1>2. \A v \in Uploads \ {u} : path'[v] # path[u]
  BY <1>1 DEF Shared
<1>3. CASE Quiet
  BY <1>1, <1>3 DEF Quiet
<1>4. ASSUME NEW v \in Uploads, Open(v) PROVE files'[path[u]] = files[path[u]]
  BY <1>1, <1>2, <1>4 DEF Open, Located
<1>5. ASSUME NEW v \in Uploads, Write(v) PROVE files'[path[u]] = files[path[u]]
  BY <1>1, <1>2, <1>5 DEF Write
<1>6. ASSUME NEW v \in Uploads, WriteFails(v) \/ Hash(v) \/ CommitSave(v) \/ CommitInDoubt(v)
      PROVE files'[path[u]] = files[path[u]]
  BY <1>6 DEF WriteFails, Hash, CommitSave, CommitInDoubt
<1>7. ASSUME NEW r \in Readers, ReadFile(r) PROVE files'[path[u]] = files[path[u]]
  BY <1>7 DEF ReadFile
<1> QED
  BY <1>1, <1>3, <1>4, <1>5, <1>6, <1>7, QuietSteps DEF Loud

(* The files, hashes and rows of uploads in the course of handle_upload.     *)
InProgress(u) ==
    /\ pc[u] = "write" /\ ~Shared(u) => files[path[u]] = Empty
    /\ pc[u] = "hash" /\ ~Tampered(u) => files[path[u]] = Content[u]
    /\ pc[u] \in {"save", "saving"} /\ ~Shared(u) => files[path[u]] = seen[u]
    /\ pc[u] \in {"save", "saving"} /\ ~Tampered(u) => seen[u] = Content[u]

OnRecord(w) ==
    /\ ~Shared(w) => files[path[w]] = works[w].hash
    /\ ~Tampered(w) => works[w].hash = Content[w]

Contents ==
    /\ \A u \in Uploads : InProgress(u)
    /\ \A w \in DOMAIN works : OnRecord(w)

(* Every step keeps the contents; only an upload's own steps, or those of one *)
(* that shares its path, touch its file.                                      *)
LEMMA ContentsStep == Inv1 /\ Contents /\ [Next]_vars => Contents'
<1> SUFFICES ASSUME Inv1, Contents, [Next]_vars PROVE Contents'
  OBVIOUS
<1> USE RequestsAssumption, DataAssumption DEF disk, tables, Inv1, Types, Handlers
<1>1. \A u \in Uploads : (Shared(u) => Shared(u)') /\ (Tampered(u) => Tampered(u)')
  BY PathsStay
<1>2. \A u \in Uploads : ~Tampered(u)' => ~Shared(u)' /\ u \notin short'
  BY DEF Tampered
<1>3. \A u \in Uploads : ~Tampered(u) => ~Shared(u) /\ u \notin short
  BY DEF Tampered
<1>4. \A u \in Uploads : pc[u] # "idle" /\ ~Shared(u)' /\ ~Write(u) =>
         path'[u] = path[u] /\ files'[path[u]] = files[path[u]]
  BY OwnFile
<1>5. CASE Quiet
  <2>1. ASSUME NEW u \in Uploads PROVE InProgress(u)'
    BY <1>1, <1>2, <1>3, <1>4, <1>5 DEF Quiet, Contents, InProgress, Located
  <2>2. ASSUME NEW w \in DOMAIN works' PROVE OnRecord(w)'
    BY <1>1, <1>2, <1>3, <1>4, <1>5 DEF Quiet, Contents, InProgress, OnRecord, Located
  <2> QED
    BY <2>1, <2>2 DEF Contents
<1>6. ASSUME NEW v \in Uploads, Open(v) PROVE Contents'
  <2>1. ASSUME NEW u \in Uploads PROVE InProgress(u)'
    <3>1. CASE u = v
      <4>1. <<clock, Name[v]>> \in Paths
        BY DEF Paths
      <4> QED
        BY <1>6, <3>1, <4>1 DEF Open, InProgress
    <3>2. CASE u # v
      <4>1. ~Write(u)
        BY <1>6, <3>2 DEF Open, Write
      <4> QED
        BY <1>1, <1>2, <1>3, <1>4, <1>6, <3>2, <4>1 DEF Open, Contents, InProgress, Located
    <3> QED
      BY <3>1, <3>2
  <2>2. ASSUME NEW w \in DOMAIN works' PROVE OnRecord(w)'
    BY <1>1, <1>2, <1>3, <1>4, <1>6 DEF Open, Write, Contents, InProgress, OnRecord, Located
  <2> QED
    BY <2>1, <2>2 DEF Contents
<1>7. ASSUME NEW v \in Uploads, Write(v) PROVE Contents'
  <2>1. ASSUME NEW u \in Uploads PROVE InProgress(u)'
    <3>1. CASE u = v
      <4>1. path[v] \in Paths /\ path' = path /\ pc'[v] = "hash"
        BY <1>7 DEF Write, Located
      <4>2. ASSUME ~Tampered(v)' PROVE files'[path[v]] = Content[v]
        <5>1. files[path[v]] = Empty
          BY <1>1, <1>2, <1>7, <4>2 DEF Write, Contents, InProgress
        <5> QED
          BY <1>7, <4>1, <5>1 DEF Write, Written
      <4> QED
        BY <3>1, <4>1, <4>2 DEF InProgress
    <3>2. CASE u # v
      <4>1. ~Write(u)
        BY <1>7, <3>2 DEF Write, Located
      <4> QED
        BY <1>1, <1>2, <1>3, <1>4, <1>7, <3>2, <4>1 DEF Write, Contents, InProgress, Located
    <3> QED
      BY <3>1, <3>2
  <2>2. ASSUME NEW w \in DOMAIN works' PROVE OnRecord(w)'
    BY <1>1, <1>2, <1>3, <1>4, <1>7 DEF Write, Written, Contents, InProgress, OnRecord, Located
  <2> QED
    BY <2>1, <2>2 DEF Contents
<1>8. ASSUME NEW v \in Uploads, WriteFails(v) PROVE Contents'
  <2>1. ASSUME NEW u \in Uploads PROVE InProgress(u)'
    BY <1>1, <1>2, <1>3, <1>4, <1>8 DEF WriteFails, Contents, InProgress, Located
  <2>2. ASSUME NEW w \in DOMAIN works' PROVE OnRecord(w)'
    BY <1>1, <1>2, <1>3, <1>4, <1>8 DEF WriteFails, Contents, InProgress, OnRecord, Located
  <2> QED
    BY <2>1, <2>2 DEF Contents
<1>9. ASSUME NEW v \in Uploads, Hash(v) PROVE Contents'
  <2>1. ASSUME NEW u \in Uploads PROVE InProgress(u)'
    BY <1>1, <1>2, <1>3, <1>4, <1>9 DEF Hash, Contents, InProgress, Located
  <2>2. ASSUME NEW w \in DOMAIN works' PROVE OnRecord(w)'
    BY <1>1, <1>2, <1>3, <1>4, <1>9 DEF Hash, Contents, InProgress, OnRecord, Located
  <2> QED
    BY <2>1, <2>2 DEF Contents
<1>10. ASSUME NEW v \in Uploads, CommitSave(v) \/ CommitInDoubt(v) PROVE Contents'
  <2>1. /\ pc[v] = "saving" /\ works' = Saved(v) /\ UNCHANGED <<files, path, seen, short>>
        /\ pc' = [pc EXCEPT ![v] = "done"]
    BY <1>10 DEF CommitSave, CommitInDoubt, Ends, Answers
  <2>2. ASSUME NEW u \in Uploads PROVE InProgress(u)'
    BY <1>1, <1>2, <1>3, <2>1 DEF Contents, InProgress
  <2>3. ASSUME NEW w \in DOMAIN works' PROVE OnRecord(w)'
    BY <1>1, <1>2, <1>3, <2>1, SavedRows DEF Contents, InProgress, OnRecord
  <2> QED
    BY <2>2, <2>3 DEF Contents
<1>11. ASSUME NEW r \in Readers, ReadFile(r) PROVE Contents'
  <2>1. ASSUME NEW u \in Uploads PROVE InProgress(u)'
    BY <1>1, <1>2, <1>3, <1>4, <1>11 DEF ReadFile, Answers, Contents, InProgress, Located
  <2>2. ASSUME NEW w \in DOMAIN works' PROVE OnRecord(w)'
    BY <1>1, <1>2, <1>3, <1>4, <1>11 DEF ReadFile, Answers, Contents, InProgress, OnRecord, Located
  <2> QED
    BY <2>1, <2>2 DEF Contents
<1> QED
  BY <1>5, <1>6, <1>7, <1>8, <1>9, <1>10, <1>11, QuietSteps DEF Loud

(* What was answered, and which rows are marked.                             *)
Acknowledged(u) == reply[u] = "201" /\ ~Tampered(u) => works[target[u]].hash = Content[u]

Sent(r) == reply[r] = "200" /\ target[r] # NoMatch /\ ~Shared(target[r]) => seen[r] = works[target[r]].hash

Answered ==
    /\ \A u \in Uploads : Acknowledged(u)
    /\ \A r \in Readers : Sent(r)

Inv2 == Inv1 /\ Contents /\ Answered /\ NoFalseAccusation /\ CopiesAreFlagged

(* A row that save_work keeps under its hash, marked or not.                 *)
LEMMA SavedMarks ==
    ASSUME Inv1, NEW u \in Uploads, pc[u] = "saving", NEW w \in DOMAIN works
    PROVE  /\ works[w].hash = seen[u] /\ Student[w] # Student[u]
                => Saved(u)[w].status = "duplicate_detected"
           /\ works[w].status = "duplicate_detected" => Saved(u)[w].status = "duplicate_detected"
           /\ Saved(u)[w].status = "duplicate_detected" =>
                 \/ works[w].status = "duplicate_detected"
                 \/ works[w].hash = seen[u] /\ Student[w] # Student[u]
<1>1. works[w] \in [hash : Bytes, status : Statuses]
  BY DEF Inv1, Types
<1>2. [works[w] EXCEPT !.status = "duplicate_detected"].status = "duplicate_detected"
  BY <1>1
<1>3. w # u
  BY DEF Inv1, Located
<1>4. w \in Existing(u) <=> works[w].hash = seen[u]
  BY DEF Existing
<1>5. Saved(u)[w] = IF w \in Existing(u) /\ Student[w] # Student[u]
                   THEN [works[w] EXCEPT !.status = "duplicate_detected"] ELSE works[w]
  BY <1>3, <1>4 DEF Saved
<1> QED
  BY <1>2, <1>4, <1>5

(* A row keeps its hash, so an answer that was true stays true.               *)
LEMMA AnsweredStep == Inv2 /\ [Next]_vars => Answered'
<1> SUFFICES ASSUME Inv2, [Next]_vars PROVE Answered'
  OBVIOUS
<1> USE RequestsAssumption, DataAssumption DEF disk, tables, Inv1, Inv2, Types, Handlers
<1>1. \A u \in Uploads : (Shared(u) => Shared(u)') /\ (Tampered(u) => Tampered(u)')
  BY PathsStay
<1>2. \A r \in Readers : reply[r] = "200" /\ target[r] # NoMatch => target[r] \in Uploads
  BY DEF Located
<1>3. CASE Quiet
  BY <1>1, <1>2, <1>3 DEF Quiet, Answered, Acknowledged, Sent
<1>4. ASSUME NEW v \in Uploads, Open(v) \/ Write(v) \/ WriteFails(v) \/ Hash(v) PROVE Answered'
  <2>1. UNCHANGED <<works, target, reply>> /\ \A r \in Readers : seen'[r] = seen[r]
    BY <1>4 DEF Open, Write, WriteFails, Hash
  <2> QED
    BY <1>1, <1>2, <2>1 DEF Answered, Acknowledged, Sent
<1>5. ASSUME NEW v \in Uploads, CommitSave(v) PROVE Answered'
  <2>1. /\ pc[v] = "saving" /\ works' = Saved(v) /\ UNCHANGED <<path, short, seen>>
        /\ \A t \in Handlers \ {v} : reply'[t] = reply[t] /\ target'[t] = target[t]
        /\ target'[v] \in (IF Existing(v) = {} THEN {v} ELSE Existing(v))
    BY <1>5 DEF CommitSave, Ends, Answers, Existing
  <2>2. \A w \in DOMAIN works : works'[w].hash = works[w].hash
    BY <2>1, SavedRows
  <2>3. works'[target'[v]].hash = seen[v]
    <3>1. CASE Existing(v) = {}
      BY <2>1, <3>1 DEF Saved
    <3>2. CASE Existing(v) # {}
      BY <2>1, <2>2, <3>2 DEF Existing
    <3> QED
      BY <3>1, <3>2
  <2>4. ASSUME NEW u \in Uploads PROVE Acknowledged(u)'
    BY <1>1, <2>1, <2>2, <2>3 DEF Answered, Acknowledged, Located, Contents, InProgress
  <2>5. ASSUME NEW r \in Readers PROVE Sent(r)'
    BY <1>1, <1>2, <2>1, <2>2 DEF Answered, Sent, Located
  <2> QED
    BY <2>4, <2>5 DEF Answered
<1>6. ASSUME NEW v \in Uploads, CommitInDoubt(v) PROVE Answered'
  <2>1. /\ pc[v] = "saving" /\ works' = Saved(v) /\ UNCHANGED <<path, short, seen, target>>
        /\ reply' = [reply EXCEPT ![v] = "500"]
    BY <1>6 DEF CommitInDoubt, Answers
  <2>2. \A w \in DOMAIN works : works'[w].hash = works[w].hash
    BY <2>1, SavedRows
  <2> QED
    BY <1>1, <1>2, <2>1, <2>2 DEF Answered, Acknowledged, Sent, Located
<1>7. ASSUME NEW s \in Readers, ReadFile(s) PROVE Answered'
  <2>1. target[s] \in DOMAIN works
    BY <1>7 DEF ReadFile, Located
  <2> QED
    BY <1>1, <1>2, <1>7, <2>1 DEF ReadFile, Answers, Answered, Acknowledged, Sent, Contents, OnRecord
<1> QED
  BY <1>3, <1>4, <1>5, <1>6, <1>7, QuietSteps DEF Loud

(* A mark is set by save_work alone, and nothing takes it away.              *)
LEMMA MarksStep == Inv2 /\ [Next]_vars => NoFalseAccusation' /\ CopiesAreFlagged'
<1> SUFFICES ASSUME Inv2, [Next]_vars PROVE NoFalseAccusation' /\ CopiesAreFlagged'
  OBVIOUS
<1> USE RequestsAssumption, DataAssumption DEF disk, tables, Inv1, Inv2, Types, Handlers
<1>1. /\ \A u \in Uploads : path[u] # NoPath => path'[u] = path[u]
      /\ \A u \in Uploads : Tampered(u) => Tampered(u)'
  BY PathsStay
<1>2. CASE Quiet
  BY <1>1, <1>2 DEF Quiet, NoFalseAccusation, CopiesAreFlagged
<1>3. ASSUME NEW v \in Uploads, Open(v) \/ Write(v) \/ WriteFails(v) \/ Hash(v)
      PROVE NoFalseAccusation' /\ CopiesAreFlagged'
  <2>1. UNCHANGED <<works, target, reply>>
    BY <1>3 DEF Open, Write, WriteFails, Hash
  <2> QED
    BY <1>1, <2>1 DEF NoFalseAccusation, CopiesAreFlagged
<1>4. ASSUME NEW v \in Uploads, CommitSave(v) \/ CommitInDoubt(v) PROVE NoFalseAccusation'
  <2>1. pc[v] = "saving" /\ works' = Saved(v) /\ UNCHANGED <<path, short>>
    BY <1>4 DEF CommitSave, CommitInDoubt, Ends
  <2> SUFFICES ASSUME NEW w \in DOMAIN works', works'[w].status = "duplicate_detected"
               PROVE \E u \in Uploads :
                        /\ Student[u] # Student[w] /\ path'[u] # NoPath
                        /\ Content[u] = Content[w] \/ Tampered(u)' \/ Tampered(w)'
    BY DEF NoFalseAccusation
  <2>2. w \in DOMAIN works
    BY <2>1, SavedRows
  <2>3. CASE works[w].status = "duplicate_detected"
    BY <1>1, <2>2, <2>3 DEF NoFalseAccusation
  <2>4. CASE works[w].hash = seen[v] /\ Student[w] # Student[v]
    <3>1. path[v] # NoPath
      BY <2>1 DEF Located
    <3>2. Content[v] = Content[w] \/ Tampered(v) \/ Tampered(w)
      BY <2>1, <2>2, <2>4 DEF Contents, InProgress, OnRecord
    <3> QED
      BY <1>1, <2>2, <2>4, <3>1, <3>2
  <2> QED
    BY <2>1, <2>2, <2>3, <2>4, SavedMarks
<1>5. ASSUME NEW v \in Uploads, CommitSave(v) PROVE CopiesAreFlagged'
  <2>1. /\ pc[v] = "saving" /\ works' = Saved(v)
        /\ \A u \in Uploads \ {v} : reply'[u] = reply[u] /\ target'[u] = target[u]
        /\ target'[v] \in (IF Existing(v) = {} THEN {v} ELSE Existing(v))
    BY <1>5 DEF CommitSave, Ends, Answers, Existing
  <2> SUFFICES ASSUME NEW u \in Uploads, reply'[u] = "201", Student[target'[u]] # Student[u]
               PROVE works'[target'[u]].status = "duplicate_detected"
    BY DEF CopiesAreFlagged
  <2>2. CASE u = v
    BY <2>1, <2>2, SavedMarks DEF Existing
  <2>3. CASE u # v
    BY <2>1, <2>3, SavedMarks DEF CopiesAreFlagged, Located
  <2> QED
    BY <2>2, <2>3
<1>6. ASSUME NEW v \in Uploads, CommitInDoubt(v) PROVE CopiesAreFlagged'
  <2>1. /\ pc[v] = "saving" /\ works' = Saved(v) /\ target' = target
        /\ reply' = [reply EXCEPT ![v] = "500"]
    BY <1>6 DEF CommitInDoubt, Answers
  <2> QED
    BY <2>1, SavedMarks DEF CopiesAreFlagged, Located
<1>7. ASSUME NEW s \in Readers, ReadFile(s) PROVE NoFalseAccusation' /\ CopiesAreFlagged'
  BY <1>1, <1>7 DEF ReadFile, Answers, NoFalseAccusation, CopiesAreFlagged
<1> QED
  BY <1>2, <1>3, <1>4, <1>5, <1>6, <1>7, QuietSteps DEF Loud

-----------------------------------------------------------------------------
(* The theorems.                                                             *)

(* The first state.                                                          *)
LEMMA Initially == Init => Inv2
<1> SUFFICES ASSUME Init PROVE Inv2
  OBVIOUS
<1> USE RequestsAssumption, DataAssumption DEF Init, Handlers, Services, Nothing
<1>1. Types
  BY DEF Types, Bytes, InTransaction
<1>2. Held /\ Located /\ Unreported
  BY DEF Held, Service, InTransaction, Located, Unreported, NothingIsReported
<1>3. Contents /\ Answered /\ NoFalseAccusation /\ CopiesAreFlagged
  BY DEF Contents, InProgress, Answered, Acknowledged, Sent, NoFalseAccusation, CopiesAreFlagged
<1> QED
  BY <1>1, <1>2, <1>3 DEF Inv1, Inv2

(* Both halves of the invariant hold in every state.                         *)
THEOREM Invariant == Spec => []Inv2
<1>1. Inv2 /\ [Next]_vars => Inv2'
  BY TypesStep, HeldStep, LocatedStep, UnreportedStep, ContentsStep, AnsweredStep, MarksStep
  DEF Inv1, Inv2
<1> QED
  BY <1>1, Initially, PTL DEF Spec

(* The types, and who holds the connections.                                 *)
THEOREM TypeCorrect == Spec => []TypeOK
<1>1. Inv2 => TypeOK
  BY DEF Inv1, Inv2, Types, TypeOK
<1> QED
  BY <1>1, Invariant, PTL

(* A work's file has the hash of its row, and that is what readers get.      *)
THEOREM HashesMatch == Spec => []FilesMatchHashes
<1>1. Inv2 => FilesMatchHashes
  BY DEF Inv2, Contents, OnRecord, Answered, Sent, FilesMatchHashes
<1> QED
  BY <1>1, Invariant, PTL

(* An acknowledged upload can be fetched under the id that was returned.     *)
THEOREM Served == Spec => []AcknowledgedIsServed
<1>1. Inv2 => AcknowledgedIsServed
  BY DEF Inv1, Inv2, Located, Contents, OnRecord, Answered, Acknowledged, Tampered, AcknowledgedIsServed
<1> QED
  BY <1>1, Invariant, PTL

(* A work is marked as a duplicate only for another student's upload of the  *)
(* same content.                                                             *)
THEOREM MarksHaveReasons == Spec => []NoFalseAccusation
<1>1. Inv2 => NoFalseAccusation
  BY DEF Inv2
<1> QED
  BY <1>1, Invariant, PTL

(* save_report never takes the mark away from a work that was copied: it     *)
(* never gets to set a status, since it never has a match to store.          *)
THEOREM MarksStay == Spec => []CopiesAreFlagged
<1>1. Inv2 => CopiesAreFlagged
  BY DEF Inv2
<1> QED
  BY <1>1, Invariant, PTL
=============================================================================
