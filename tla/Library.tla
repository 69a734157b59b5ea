------------------------------ MODULE Library ------------------------------
(***************************************************************************)
(* The library of wallpapers: `vibewall scan` walks the directories, makes *)
(* a thumbnail for each file that has none, and writes a row with the      *)
(* colours of the thumbnail (core/scanner.cpp, core/thumbnail_cache.cpp,   *)
(* core/video_thumbnail.cpp, core/database.cpp), while the user changes    *)
(* files and favourites from the command line and the picker.  Scans can   *)
(* overlap and can be killed; a thumbnail is written in place, so that     *)
(* there is a time when it exists and is not whole.  A signal that kills a *)
(* scan reaches its ffmpeg too, as Ctrl-C does.                            *)
(*                                                                         *)
(* What a file shows, and so its thumbnail and its row's colours, is a     *)
(* member of Contents.  Names, sizes, tags and the order of the list are   *)
(* left out, and so is a user who clears the directory of thumbnails.      *)
(***************************************************************************)
EXTENDS FiniteSets

CONSTANTS
  Paths,    \* paths of wallpapers
  Videos,   \* those of videos
  Contents, \* what a file can show
  Scanners, \* processes that scan
  Partial,  \* a thumbnail that is not whole, and the colours it gives
  None      \* no file, no row

ASSUME VideosAssumption == Videos \subseteq Paths
ASSUME ContentsAssumption == Contents # {} /\ None \notin Contents /\ Partial \notin Contents

\* The rows of the table wallpapers.
Rows == [colours : Contents \cup {Partial}, favorite : BOOLEAN]

ASSUME NonesAssumption == None # Partial /\ None \notin Paths \cup Rows \cup BOOLEAN

VARIABLES
  file,   \* file[p]: what the file shows
  thumb,  \* thumb[p]: what its thumbnail shows
  row,    \* row[p]: [colours, favorite] of the table wallpapers
  pc,     \* pc[s]: the step of scanner s
  todo,   \* todo[s]: paths s has still to visit
  path,   \* path[s]: the path s is at
  seen,   \* seen[s]: what s opened, or the colours of the thumbnail
  errors, \* errors[s]: ScanResult.errors is not zero
  view,   \* view[p]: the favourite flag of the picker's copy of the row, or None
  choice, \* history: the favourite flag the user set last
  torn,   \* history: the paths whose thumbnail was left half way, or filled by two at once
  alone,  \* history: the scanners nothing has happened beside so far
  settled \* history: the paths of the last scan, when it was alone and had no errors

scanVars == <<pc, todo, path, seen, errors>>
vars == <<file, thumb, row, scanVars, view, choice, torn, alone, settled>>

Init == /\ file \in [Paths -> Contents \cup {None}]
        /\ thumb = [p \in Paths |-> None]
        /\ row = [p \in Paths |-> None]
        /\ pc = [s \in Scanners |-> "idle"]
        /\ todo = [s \in Scanners |-> {}]
        /\ path = [s \in Scanners |-> None]
        /\ seen = [s \in Scanners |-> None]
        /\ errors = [s \in Scanners |-> FALSE]
        /\ view = [p \in Paths |-> None]
        /\ choice = [p \in Paths |-> FALSE]
        /\ torn = {}
        /\ alone = {}
        /\ settled = {}

Indexed(p) == row[p] # None

-----------------------------------------------------------------------------
(* Bugs the properties are tried against.                                  *)

\* The row of a rescanned file is replaced as a whole.
BugUpserted(old, colours) == [colours |-> colours, favorite |-> FALSE]

\* A thumbnail that could not be made is not noticed.
BugThumbFails(s) == /\ pc[s] = "make"
                    /\ pc' = [pc EXCEPT ![s] = "upsert"]
                    /\ UNCHANGED <<file, thumb, row, todo, path, seen, errors, view, choice, torn,
                                   alone, settled>>

\* A thumbnail made before is not read again.
BugColours(s) == IF Indexed(path[s]) THEN row[path[s]].colours ELSE thumb[path[s]]

-----------------------------------------------------------------------------
(* A scan.                                                                 *)

Idle == \A s \in Scanners : pc[s] = "idle"

\* A file changes or a scan is killed: what a scan before found need not hold.
Disturb == alone' = {} /\ settled' = {}

Begin(s) == /\ pc[s] = "idle"
            /\ pc' = [pc EXCEPT ![s] = "walk"]
            /\ todo' = [todo EXCEPT ![s] = Paths]
            /\ errors' = [errors EXCEPT ![s] = FALSE]
            /\ alone' = IF Idle THEN {s} ELSE {}
            /\ settled' = {}
            /\ UNCHANGED <<file, thumb, row, path, seen, view, choice, torn>>

Goto(s, step) == pc' = [pc EXCEPT ![s] = step]

\* recursive_directory_iterator reaches p: index_one begins when the file is there.
Visit(s, p) == /\ pc[s] = "walk"
               /\ todo' = [todo EXCEPT ![s] = @ \ {p}]
               /\ IF file[p] = None
                  THEN UNCHANGED <<pc, path>>
                  ELSE Goto(s, "check") /\ path' = [path EXCEPT ![s] = p]
               /\ UNCHANGED <<file, thumb, row, seen, errors, view, choice, torn, alone, settled>>

\* index_one returns, and the walk goes on.
Return(s) == /\ Goto(s, "walk")
             /\ path' = [path EXCEPT ![s] = None]
             /\ seen' = [seen EXCEPT ![s] = None]

\* An exception of index_one is counted.
Caught(s) == /\ Return(s)
             /\ errors' = [errors EXCEPT ![s] = TRUE]
             /\ UNCHANGED <<file, thumb, row, todo, view, choice, alone, settled>>

\* The source of an image is opened first, that of a video only to make its thumbnail.
CheckThumb(s) ==
  /\ pc[s] = "check"
  /\ path[s] \in Videos \/ file[path[s]] # None
  /\ seen' = [seen EXCEPT ![s] = IF path[s] \in Videos THEN None ELSE file[path[s]]]
  /\ Goto(s, IF thumb[path[s]] = None THEN "make" ELSE "read")
  /\ UNCHANGED <<file, thumb, row, todo, path, errors, view, choice, torn, alone, settled>>

SourceFails(s) == pc[s] = "check" /\ path[s] \notin Videos /\ Caught(s) /\ UNCHANGED torn

\* The scans that are filling the thumbnail of p.
Filling(p) == {s \in Scanners : pc[s] = "making" /\ path[s] = p}

\* The file of the thumbnail is created or cut to nothing, and filled.
BeginThumb(s) ==
  /\ pc[s] = "make"
  /\ path[s] \in Videos => file[path[s]] # None
  /\ seen' = [seen EXCEPT ![s] = IF path[s] \in Videos THEN file[path[s]] ELSE @]
  /\ thumb' = [thumb EXCEPT ![path[s]] = Partial]
  /\ torn' = IF Filling(path[s]) = {} THEN torn \ {path[s]} ELSE torn \cup {path[s]}
  /\ Goto(s, "making")
  /\ UNCHANGED <<file, row, todo, path, errors, view, choice, alone, settled>>

\* Two scans that fill the same file can leave a mixture, whichever ends last.
Written(s) == IF path[s] \in torn THEN {seen[s], Partial} ELSE {seen[s]}

EndThumb(s) ==
  /\ pc[s] = "making"
  /\ \E c \in Written(s) :
       /\ thumb' = [thumb EXCEPT ![path[s]] = c]
       /\ torn' = IF c = Partial \/ Filling(path[s]) # {s} THEN torn ELSE torn \ {path[s]}
  /\ Goto(s, "read")
  /\ UNCHANGED <<file, row, todo, path, seen, errors, view, choice, alone, settled>>

\* What a scan that goes no further has written so far stays.
LeftHalfWay(s) == IF pc[s] = "making" THEN torn \cup {path[s]} ELSE torn

\* libvips or ffmpeg fails.
ThumbFails(s) == pc[s] \in {"make", "making"} /\ Caught(s) /\ torn' = LeftHalfWay(s)

\* The colours are those of the thumbnail; one that is not whole is refused, or
\* gives colours of its own.
Colours(s) == thumb[path[s]]

ReadThumb(s) ==
  /\ pc[s] = "read"
  /\ seen' = [seen EXCEPT ![s] = Colours(s)]
  /\ Goto(s, "upsert")
  /\ UNCHANGED <<file, thumb, row, todo, path, errors, view, choice, torn, alone, settled>>

ReadFails(s) == pc[s] = "read" /\ thumb[path[s]] = Partial /\ Caught(s) /\ UNCHANGED torn

\* upsert_wallpaper: the favourite flag of a row that is there is kept.
Upserted(old, colours) ==
  [colours |-> colours, favorite |-> IF old = None THEN FALSE ELSE old.favorite]

Upsert(s) ==
  /\ pc[s] = "upsert"
  /\ row' = [row EXCEPT ![path[s]] = Upserted(@, seen[s])]
  /\ Return(s)
  /\ UNCHANGED <<file, thumb, todo, errors, view, choice, torn, alone, settled>>

\* The database stays locked for longer than busy_timeout.
UpsertFails(s) == pc[s] = "upsert" /\ Caught(s) /\ UNCHANGED torn

Reset(s) == /\ Goto(s, "idle")
            /\ todo' = [todo EXCEPT ![s] = {}]
            /\ path' = [path EXCEPT ![s] = None]
            /\ seen' = [seen EXCEPT ![s] = None]
            /\ errors' = [errors EXCEPT ![s] = FALSE]

End(s) == /\ pc[s] = "walk"
          /\ todo[s] = {}
          /\ settled' = IF s \in alone /\ ~errors[s]
                        THEN {p \in Paths : file[p] # None} ELSE {}
          /\ alone' = {}
          /\ Reset(s)
          /\ UNCHANGED <<file, thumb, row, view, choice, torn>>

\* The scan is killed, or an error of the walk itself ends it.
Killed(s) == /\ pc[s] # "idle"
             /\ Reset(s)
             /\ Disturb
             /\ torn' = LeftHalfWay(s)
             /\ UNCHANGED <<file, thumb, row, view, choice>>

-----------------------------------------------------------------------------
(* The user.                                                               *)

\* A file is added, replaced or removed; nothing looks at its thumbnail.
ChangeFile(p) == /\ \E c \in Contents \cup {None} : c # file[p] /\ file' = [file EXCEPT ![p] = c]
                 /\ Disturb
                 /\ UNCHANGED <<thumb, row, scanVars, view, choice, torn>>

\* set_favorite; a path without a row is passed over.
SetFavorite(p, favorite) ==
  /\ row' = IF Indexed(p) THEN [row EXCEPT ![p].favorite = favorite] ELSE row
  /\ choice' = IF Indexed(p) THEN [choice EXCEPT ![p] = favorite] ELSE choice
  /\ UNCHANGED <<file, thumb, scanVars, torn, alone, settled>>

\* vibewall favorite.
Favorite(p) == \E favorite \in BOOLEAN : SetFavorite(p, favorite) /\ UNCHANGED view

\* toggle_favorite_at: the new flag comes from the picker's copy.
Toggle(p) == /\ view[p] # None
             /\ SetFavorite(p, ~view[p])
             /\ view' = [view EXCEPT ![p] = ~@]

\* load_wallpapers.
Refresh == /\ view' = [p \in Paths |-> IF Indexed(p) THEN row[p].favorite ELSE None]
           /\ UNCHANGED <<file, thumb, row, scanVars, choice, torn, alone, settled>>

ScanStep(s) == \/ Begin(s) \/ (\E p \in todo[s] : Visit(s, p))
               \/ CheckThumb(s) \/ SourceFails(s) \/ BeginThumb(s) \/ EndThumb(s)
               \/ ThumbFails(s) \/ ReadThumb(s) \/ ReadFails(s)
               \/ Upsert(s) \/ UpsertFails(s) \/ End(s)

Next == \/ \E s \in Scanners : ScanStep(s) \/ Killed(s)
        \/ \E p \in Paths : ChangeFile(p) \/ Favorite(p) \/ Toggle(p)
        \/ Refresh

Spec == Init /\ [][Next]_vars

-----------------------------------------------------------------------------
(* Properties.                                                             *)

TypeOK == /\ file \in [Paths -> Contents \cup {None}]
          /\ thumb \in [Paths -> Contents \cup {Partial, None}]
          /\ row \in [Paths -> Rows \cup {None}]
          /\ pc \in [Scanners -> {"idle", "walk", "check", "make", "making", "read", "upsert"}]
          /\ todo \in [Scanners -> SUBSET Paths]
          /\ path \in [Scanners -> Paths \cup {None}]
          /\ seen \in [Scanners -> Contents \cup {Partial, None}]
          /\ errors \in [Scanners -> BOOLEAN]
          /\ view \in [Paths -> BOOLEAN \cup {None}]
          /\ choice \in [Paths -> BOOLEAN]
          /\ torn \subseteq Paths
          /\ alone \subseteq Scanners
          /\ settled \subseteq Paths

\* The favourite flag is the one the user set last, whatever scans ran over the
\* row meanwhile, and also when the row was read before the flag was set.
FavoriteIsTheUsersChoice == \A p \in Paths : Indexed(p) => row[p].favorite = choice[p]

\* Every row has a thumbnail file, even after scans that failed, were killed or ran
\* into each other.  The file is whole but for three cases that create_image_thumbnail
\* and create_video_thumbnail, which write it in place and trust one that exists, leave
\* open: a scan that had found none is filling it once more, one that filled it was
\* killed or failed half way, or two filled it at once.
IndexedHasThumbnail ==
  \A p \in Paths : Indexed(p) =>
    /\ thumb[p] # None
    /\ thumb[p] = Partial => Filling(p) # {} \/ p \in torn

\* A scan that ran by itself and counted no error has indexed every file, each
\* with the colours of the thumbnail that is shown, whatever earlier scans that
\* overlapped or were killed had written.  A torn thumbnail is not made again: its
\* row then has the torn colours.
ScanSettles == \A p \in settled : Indexed(p) /\ row[p].colours = thumb[p]
=============================================================================
