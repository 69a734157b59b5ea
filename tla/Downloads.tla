------------------------------ MODULE Downloads ------------------------------
(***************************************************************************)
(* The pictures of the web and their previews (core/wallhaven_client.cpp,  *)
(* download_selected_wallhaven of picker/wayland_app.cpp).  The picker's   *)
(* interface thread downloads pictures, its worker thread and `vibewall    *)
(* wallhaven search` download previews and store a row for each, and there *)
(* can be several of all of these.  A file is written at its final path    *)
(* and one that is there is never downloaded again; a download that fails  *)
(* removes whatever is at the path by then.                                *)
(*                                                                         *)
(* A file is its pieces, each with what was written there last.  A file    *)
(* that is removed while others have it open is theirs alone: what they    *)
(* write from then on does not reach the path.                             *)
(***************************************************************************)
EXTENDS Naturals

CONSTANTS
  Pictures, Previews, \* paths of downloaded files
  Downloaders,        \* threads that download
  Pieces,             \* bound: the pieces of an answer of the server
  None                \* no file, no row

Files == Pictures \cup Previews

ASSUME FilesAssumption == Pictures \cap Previews = {} /\ None \notin Files
ASSUME PiecesAssumption == Pieces \in Nat \ {0}

\* What a server sends: what was asked for, or something that will be refused
\* for its status or its type when all of it is there.
Answers == {"picture", "page"}
Contents == [1..Pieces -> Answers \cup {"hole"}]

ASSUME NonesAssumption == None \notin Contents \cup BOOLEAN

VARIABLES
  data,     \* data[f]: the file at path f
  row,      \* row[f]: the row of wallhaven_cache names its preview f
  pc,       \* pc[d]: the step of downloader d
  file,     \* file[d]: the path d is asked for
  pos,      \* pos[d]: the pieces d has received
  answer,   \* answer[d]: what the server sends d
  attached, \* downloaders whose writes reach the file at the path
  damaged,  \* history: files a killed downloader or a full disk has left short
  shared,   \* history: downloaders that had company at their path
  lost      \* history: files removed behind the back of a row

transferVars == <<pos, answer, attached>>
historyVars == <<damaged, shared, lost>>
vars == <<data, row, pc, file, transferVars, historyVars>>

Init == /\ data = [f \in Files |-> None]
        /\ row = [f \in Previews |-> None]
        /\ pc = [d \in Downloaders |-> "idle"]
        /\ file = [d \in Downloaders |-> None]
        /\ pos = [d \in Downloaders |-> 0]
        /\ answer = [d \in Downloaders |-> "picture"]
        /\ attached = {}
        /\ damaged = {}
        /\ shared = {}
        /\ lost = {}

At(f) == {d \in Downloaders : file[d] = f}
Receiving(f) == {d \in At(f) : pc[d] = "receive"}
Exists(f) == data[f] # None
Whole(f) == Exists(f) /\ \A k \in 1..Pieces : data[f][k] = "picture"

Goto(d, step) == pc' = [pc EXCEPT ![d] = step]

\* d is done with its path, and its file is closed.
Leaves(d) == /\ Goto(d, "idle")
             /\ file' = [file EXCEPT ![d] = None]
             /\ pos' = [pos EXCEPT ![d] = 0]
             /\ answer' = [answer EXCEPT ![d] = "picture"]
             /\ attached' = attached \ {d}

-----------------------------------------------------------------------------
(* Bugs the properties are tried against.                                  *)

\* A file that is there is downloaded again.
BugAfterAsk(f) == "open"

\* A refused answer is left where it is.
BugKept(d) == pos[d] = Pieces

-----------------------------------------------------------------------------
(* wallhaven_download, wallhaven_download_preview and curl_download.       *)

AfterAsk(f) == IF Exists(f) THEN "returned" ELSE "open"

\* An entry without a URL fails at once; otherwise the path is looked up.
Ask(d, f) == /\ pc[d] = "idle"
             /\ Goto(d, AfterAsk(f)) \/ Goto(d, "failed")
             /\ file' = [file EXCEPT ![d] = f]
             /\ shared' = IF At(f) = {} THEN shared \ {d} ELSE shared \cup {d} \cup At(f)
             /\ UNCHANGED <<data, row, transferVars, damaged, lost>>

\* The directory or the file cannot be made.
OpenFails(d) == /\ pc[d] = "open"
                /\ Goto(d, "failed")
                /\ UNCHANGED <<data, row, file, transferVars, historyVars>>

\* The file is created, or cut to nothing when another has created it since.
Open(d) == /\ pc[d] = "open"
           /\ Goto(d, "receive")
           /\ data' = [data EXCEPT ![file[d]] = [k \in 1..Pieces |-> "hole"]]
           /\ attached' = attached \cup {d}
           /\ \E a \in Answers : answer' = [answer EXCEPT ![d] = a]
           /\ damaged' = damaged \ (IF Receiving(file[d]) = {} THEN {file[d]} ELSE {})
           /\ UNCHANGED <<row, file, pos, shared, lost>>

\* A piece arrives: write_file writes it and reports it written in any case.
Receive(d) ==
  /\ pc[d] = "receive"
  /\ pos[d] < Pieces
  /\ pos' = [pos EXCEPT ![d] = @ + 1]
  /\ data' = IF d \in attached THEN [data EXCEPT ![file[d]][pos'[d]] = answer[d]] ELSE data
  /\ UNCHANGED <<row, pc, file, answer, attached, historyVars>>

\* The disk is full: the stream is bad from now on, and nobody asks it.
DiskFull(d) == /\ pc[d] = "receive"
               /\ pos[d] < Pieces
               /\ d \in attached
               /\ attached' = attached \ {d}
               /\ damaged' = damaged \cup {file[d]}
               /\ UNCHANGED <<data, row, pc, file, pos, answer, shared, lost>>

\* The status is below 400 and the type is one of pictures and videos.
Accepted(d) == answer[d] = "picture"

Complete(d) == /\ pc[d] = "receive"
               /\ pos[d] = Pieces
               /\ Accepted(d)
               /\ Goto(d, "returned")
               /\ attached' = attached \ {d}
               /\ UNCHANGED <<data, row, file, pos, answer, historyVars>>

\* The connection fails or runs into its timeout, or the answer is refused: the
\* path is removed, whoever has made the file there.
Kept(d) == FALSE

Fail(d) == /\ pc[d] = "receive"
           /\ pos[d] < Pieces \/ ~Accepted(d)
           /\ Goto(d, "failed")
           /\ IF Kept(d)
              THEN UNCHANGED data /\ attached' = attached \ {d}
              ELSE data' = [data EXCEPT ![file[d]] = None] /\ attached' = attached \ At(file[d])
           /\ lost' = IF d \in shared THEN lost \cup {file[d]} ELSE lost
           /\ UNCHANGED <<row, file, pos, answer, damaged, shared>>

-----------------------------------------------------------------------------
(* What the callers do with the path.                                      *)

\* cache_wallhaven_search stores the entry, without a preview when that failed.
Store(d) == /\ pc[d] \in {"returned", "failed"}
            /\ file[d] \in Previews
            /\ row' = [row EXCEPT ![file[d]] = pc[d] = "returned"]
            /\ lost' = IF Exists(file[d]) THEN lost \ {file[d]} ELSE lost
            /\ Leaves(d)
            /\ UNCHANGED <<data, damaged, shared>>

\* The database refuses the row, which ends the search; or a picture was asked
\* for, which is applied or not (Apply).
Dismiss(d) == /\ pc[d] \in {"returned", "failed"}
              /\ Leaves(d)
              /\ UNCHANGED <<data, row, historyVars>>

-----------------------------------------------------------------------------
(* The environment.                                                        *)

\* The process of d ends in the middle: what it was writing stays.
Killed(d) == /\ pc[d] # "idle"
             /\ damaged' = IF pc[d] = "receive" THEN damaged \cup {file[d]} ELSE damaged
             /\ Leaves(d)
             /\ UNCHANGED <<data, row, shared, lost>>

\* The user removes a picture, or the cache.
Removed(f) == /\ Exists(f)
              /\ data' = [data EXCEPT ![f] = None]
              /\ attached' = attached \ At(f)
              /\ shared' = shared \cup At(f)
              /\ lost' = lost \cup {f}
              /\ UNCHANGED <<row, pc, file, pos, answer, damaged>>

DownloaderStep(d) ==
  \/ \E f \in Files : Ask(d, f)
  \/ OpenFails(d) \/ Open(d) \/ Receive(d) \/ DiskFull(d) \/ Complete(d) \/ Fail(d)
  \/ Store(d) \/ Dismiss(d)

Next == \/ \E d \in Downloaders : DownloaderStep(d) \/ Killed(d)
        \/ \E f \in Files : Removed(f)

Spec == Init /\ [][Next]_vars

-----------------------------------------------------------------------------
(* Properties.                                                             *)

Steps == {"idle", "open", "receive", "returned", "failed"}

TypeOK == /\ data \in [Files -> Contents \cup {None}]
          /\ row \in [Previews -> BOOLEAN \cup {None}]
          /\ pc \in [Downloaders -> Steps]
          /\ file \in [Downloaders -> Files \cup {None}]
          /\ pos \in [Downloaders -> 0..Pieces]
          /\ answer \in [Downloaders -> Answers]
          /\ attached \subseteq Downloaders
          /\ damaged \subseteq Files
          /\ shared \subseteq Downloaders
          /\ lost \subseteq Files

\* A file nobody is receiving is whole, however many downloads of it ran into
\* each other, cut it, failed and removed it: only a downloader that was killed
\* and a full disk leave one that is not (and it is then trusted for ever).
RestingFileIsWhole ==
  \A f \in Files : Exists(f) /\ Receiving(f) = {} /\ f \notin damaged => Whole(f)

\* The path a caller gets, to apply it or to store it, is that of a whole file,
\* new or old, unless it had company there or the file was damaged before.
ReturnedFileIsWhole ==
  \A d \in Downloaders :
    pc[d] = "returned" /\ d \notin shared /\ file[d] \notin damaged => Whole(file[d])

\* A preview that a row names is there, whatever later searches found, missed
\* or failed to get, until somebody else's failure or the user removes it.
NamedPreviewExists == \A f \in Previews : row[f] = TRUE /\ f \notin lost => Exists(f)
=============================================================================
