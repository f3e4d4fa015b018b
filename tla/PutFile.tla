------------------------------- MODULE PutFile -------------------------------
(***************************************************************************)
(* The PutFile processor (src/libminifi/src/processors/PutFile.cpp).  Each *)
(* onTrigger takes one flow file from the incoming queue, stat()s          *)
(* <directory>/<filename> and applies the conflict resolution strategy:    *)
(* "ignore" routes to success and "fail" to failure when the file exists;  *)
(* otherwise ("replace", or no file) putFile() copies the content into a   *)
(* uniquely named temporary file, renames it over the destination and      *)
(* routes to success, or to failure when the rename fails.  The temporary  *)
(* file is unlinked when the ReadCallback is destroyed.                    *)
(*                                                                         *)
(* Tasks are concurrent onTrigger invocations of the processor (several    *)
(* concurrent tasks, or several PutFile processors writing one directory). *)
(* The session's transfer becomes visible when the framework commits it at *)
(* the end of onTrigger; both happen in the step that ends the trigger.    *)
(***************************************************************************)
EXTENDS Integers, Sequences, FiniteSets

CONSTANTS
  Tasks,        \* concurrent onTrigger invocations
  FlowFiles,    \* flow files arriving on the incoming connection
  Names,        \* values of the filename attribute
  FileNameOf,   \* the filename attribute of each flow file
  Foreign,      \* content of a file that PutFile did not write
  None          \* no file of that name in the directory

ASSUME FlowFilesAssumption == IsFiniteSet(FlowFiles) /\ FlowFiles # {}
ASSUME FileNameAssumption == FileNameOf \in [FlowFiles -> Names]
ASSUME ForeignAssumption == Foreign \notin FlowFiles /\ None \notin FlowFiles

Strategies == {"replace", "ignore", "fail"}

\* A directory entry: whose content the file holds, and whether all of it.
Entries == [content : FlowFiles \cup {Foreign}, complete : BOOLEAN]

VARIABLES
  conflictResolution, \* conflict_resolution_, read in onSchedule
  queue,              \* the incoming connection, head first
  dir,                \* the output directory: name -> entry or None
  tmp,                \* tasks whose temporary file exists
  tpc,                \* "idle", or "put" between stat() and rename()
  tff,                \* the flow file a task holds
  success,            \* flow files committed to the success relationship
  failure             \* flow files committed to the failure relationship

vars == <<conflictResolution, queue, dir, tmp, tpc, tff, success, failure>>

-----------------------------------------------------------------------------
\* onSchedule() has read the properties; the directory may hold files.
Init ==
  /\ conflictResolution \in Strategies
  /\ \E s \in [1 .. Cardinality(FlowFiles) -> FlowFiles] :
       /\ \A i, j \in DOMAIN s : i # j => s[i] # s[j]
       /\ queue = s
  /\ dir \in [Names -> {None} \cup {[content |-> Foreign, complete |-> TRUE]}]
  /\ tmp = {}
  /\ tpc = [k \in Tasks |-> "idle"]
  /\ tff = [k \in Tasks |-> CHOOSE f \in FlowFiles : TRUE]
  /\ success = {}
  /\ failure = {}

\* session->transfer() followed by the framework's commit of the session.
Route(f, rel) ==
  IF rel = "success"
  THEN success' = success \cup {f} /\ UNCHANGED failure
  ELSE failure' = failure \cup {f} /\ UNCHANGED success

\* Mutant: the "ignore" branch forgets session->transfer(), losing the
\* flow file.
TriggerIgnoreDrops(k) ==
  /\ tpc[k] = "idle"
  /\ queue # << >>
  /\ LET f == Head(queue)
         exists == dir[FileNameOf[f]] # None
     IN  /\ queue' = Tail(queue)
         /\ \/ /\ exists
               /\ conflictResolution = "ignore"
               /\ UNCHANGED <<success, failure, tmp, tpc, tff>>
            \/ /\ exists
               /\ conflictResolution = "fail"
               /\ Route(f, "failure")
               /\ UNCHANGED <<tmp, tpc, tff>>
            \/ /\ ~exists \/ conflictResolution = "replace"
               /\ tmp' = tmp \cup {k}
               /\ tpc' = [tpc EXCEPT ![k] = "put"]
               /\ tff' = [tff EXCEPT ![k] = f]
               /\ UNCHANGED <<success, failure>>
  /\ UNCHANGED <<conflictResolution, dir>>

\* Mutant: "ignore" is not tested before the write path, so an existing
\* file is overwritten under it.
TriggerIgnoreWrites(k) ==
  /\ tpc[k] = "idle"
  /\ queue # << >>
  /\ LET f == Head(queue)
         exists == dir[FileNameOf[f]] # None
     IN  /\ queue' = Tail(queue)
         /\ \/ /\ exists
               /\ conflictResolution = "fail"
               /\ Route(f, "failure")
               /\ UNCHANGED <<tmp, tpc, tff>>
            \/ /\ ~exists \/ conflictResolution # "fail"
               /\ tmp' = tmp \cup {k}
               /\ tpc' = [tpc EXCEPT ![k] = "put"]
               /\ tff' = [tff EXCEPT ![k] = f]
               /\ UNCHANGED <<success, failure>>
  /\ UNCHANGED <<conflictResolution, dir>>

\* Mutant: on a conflict under "fail" the processor yields and leaves the
\* flow file at the head of the queue instead of routing it to failure.
TriggerFailYields(k) ==
  /\ tpc[k] = "idle"
  /\ queue # << >>
  /\ LET f == Head(queue)
         exists == dir[FileNameOf[f]] # None
     IN  \/ /\ exists
            /\ conflictResolution = "ignore"
            /\ queue' = Tail(queue)
            /\ Route(f, "success")
            /\ UNCHANGED <<tmp, tpc, tff>>
         \/ /\ exists
            /\ conflictResolution = "fail"
            /\ UNCHANGED <<queue, success, failure, tmp, tpc, tff>>
         \/ /\ ~exists \/ conflictResolution = "replace"
            /\ queue' = Tail(queue)
            /\ tmp' = tmp \cup {k}
            /\ tpc' = [tpc EXCEPT ![k] = "put"]
            /\ tff' = [tff EXCEPT ![k] = f]
            /\ UNCHANGED <<success, failure>>
  /\ UNCHANGED <<conflictResolution, dir>>

\* Mutant: the "if (!flowFile) return;" test is dropped, so a trigger on an
\* empty queue goes on to the write path with the null flow file.
TriggerNoNullCheck(k) ==
  /\ tpc[k] = "idle"
  /\ IF queue = << >>
     THEN /\ tmp' = tmp \cup {k}
          /\ tpc' = [tpc EXCEPT ![k] = "put"]
          /\ tff' = [tff EXCEPT ![k] = None]
          /\ UNCHANGED <<queue, success, failure>>
     ELSE LET f == Head(queue)
              exists == dir[FileNameOf[f]] # None
          IN  /\ queue' = Tail(queue)
              /\ \/ /\ exists
                    /\ conflictResolution = "ignore"
                    /\ Route(f, "success")
                    /\ UNCHANGED <<tmp, tpc, tff>>
                 \/ /\ exists
                    /\ conflictResolution = "fail"
                    /\ Route(f, "failure")
                    /\ UNCHANGED <<tmp, tpc, tff>>
                 \/ /\ ~exists \/ conflictResolution = "replace"
                    /\ tmp' = tmp \cup {k}
                    /\ tpc' = [tpc EXCEPT ![k] = "put"]
                    /\ tff' = [tff EXCEPT ![k] = f]
                    /\ UNCHANGED <<success, failure>>
  /\ UNCHANGED <<conflictResolution, dir>>

\* onTrigger(): session->get() pops the head of the queue (an empty queue
\* returns at once), then stat() decides.  An existing file under "ignore"
\* or "fail" is routed without writing; otherwise the ReadCallback is
\* constructed, which creates the temporary file.
Trigger(k) ==
  /\ tpc[k] = "idle"
  /\ queue # << >>
  /\ LET f == Head(queue)
         exists == dir[FileNameOf[f]] # None
     IN  /\ queue' = Tail(queue)
         /\ \/ /\ exists
               /\ conflictResolution = "ignore"
               /\ Route(f, "success")
               /\ UNCHANGED <<tmp, tpc, tff>>
            \/ /\ exists
               /\ conflictResolution = "fail"
               /\ Route(f, "failure")
               /\ UNCHANGED <<tmp, tpc, tff>>
            \/ /\ ~exists \/ conflictResolution = "replace"
               /\ tmp' = tmp \cup {k}
               /\ tpc' = [tpc EXCEPT ![k] = "put"]
               /\ tff' = [tff EXCEPT ![k] = f]
               /\ UNCHANGED <<success, failure>>
  /\ UNCHANGED <<conflictResolution, dir>>

\* putFile(): session->read() copies the content into the temporary file;
\* _writeSucceeded is set once the stream insertion returns, whether or not
\* it wrote everything.  commit() renames the temporary file over the
\* destination (replacing whatever is there) or the rename fails; the
\* flow file goes to success or failure, and ~ReadCallback unlinks the
\* temporary file.
Put(k) ==
  /\ tpc[k] = "put"
  /\ LET f == tff[k] IN
       \/ /\ \E complete \in BOOLEAN :
               dir' = [dir EXCEPT ![FileNameOf[f]] =
                         [content |-> f, complete |-> complete]]
          /\ Route(f, "success")
       \/ /\ UNCHANGED dir
          /\ Route(f, "failure")
  /\ tmp' = tmp \ {k}
  /\ tpc' = [tpc EXCEPT ![k] = "idle"]
  /\ UNCHANGED <<conflictResolution, queue, tff>>

Next == \E k \in Tasks : Trigger(k) \/ Put(k)

\* The scheduler triggers the processor again while its queue is not empty,
\* and a started onTrigger runs to its end.
Fairness == \A k \in Tasks : WF_vars(Trigger(k) \/ Put(k))

Spec == Init /\ [][Next]_vars /\ Fairness

-----------------------------------------------------------------------------
TypeOK ==
  /\ conflictResolution \in Strategies
  /\ queue \in Seq(FlowFiles)
  /\ dir \in [Names -> Entries \cup {None}]
  /\ tmp \subseteq Tasks
  /\ tpc \in [Tasks -> {"idle", "put"}]
  /\ tff \in [Tasks -> FlowFiles]
  /\ success \subseteq FlowFiles
  /\ failure \subseteq FlowFiles

\* The tasks holding flow file f between stat() and rename().
HeldBy(f) == {k \in Tasks : tpc[k] = "put" /\ tff[k] = f}

\* Every flow file PutFile receives is, at every moment, in exactly one
\* place: queued, held by one onTrigger, or committed to exactly one
\* relationship.  No path of onTrigger loses or duplicates a flow file.
FlowFileConservation ==
  \A f \in FlowFiles :
    Cardinality({i \in DOMAIN queue : queue[i] = f})
      + Cardinality(HeldBy(f))
      + (IF f \in success THEN 1 ELSE 0)
      + (IF f \in failure THEN 1 ELSE 0) = 1

\* A step that leaves every existing file of the directory in place.
KeepsExistingFiles == \A n \in Names : dir[n] # None => dir'[n] = dir[n]

\* Under the "ignore" and "fail" strategies PutFile never replaces a file
\* that is already in the output directory.
ConflictNeverOverwritten ==
  [][(conflictResolution # "replace") => KeepsExistingFiles]_vars

\* Every flow file that arrives is eventually routed to success or failure.
AllRouted == <>[](success \cup failure = FlowFiles)

\* The failure relationship is for "Failed files (conflict, write failure,
\* etc.)": no file PutFile publishes under its final name is truncated.
NoTruncatedFile ==
  \A n \in Names : dir[n] # None => dir[n].complete

=============================================================================
