---------------------------- MODULE TextureCache ----------------------------
(***************************************************************************)
(* The textures the renderer keeps (texture_for_path and its helpers of    *)
(* picker/renderer.cpp): a map from the path of a picture to its texture,  *)
(* beside it the list of the paths by their last use, and the textures     *)
(* that exist in the driver.  Every picture of a frame is drawn at once    *)
(* with the texture texture_for_path has returned for it.                  *)
(***************************************************************************)
EXTENDS Subsequences, SequencesExt, FiniteSetsExt, Functions

CONSTANTS
  Paths, \* paths of pictures
  Limit, \* kMaxResidentTextures (200 in the code)
  Ids    \* bound: the names the driver gives to textures

ASSUME PathsAssumption == IsFiniteSet(Paths)
ASSUME LimitAssumption == Limit \in Nat \ {0}
ASSUME IdsAssumption == 0 \notin Ids /\ Cardinality(Ids) > Limit

VARIABLES
  textures, \* textures_: the texture of every resident path
  lru,      \* texture_lru_: the path used last comes first
  live,     \* textures that exist
  drawing,  \* the texture returned last, 0 for none
  readable, \* the files libvips can read
  frame,    \* history: the pictures this frame has drawn
  last      \* history: the pictures the last frame drew

cacheVars == <<textures, lru, live, drawing, readable, frame, last>>

Resident == DOMAIN textures

-----------------------------------------------------------------------------
(* Bugs the properties are tried against.                                  *)

\* A hit leaves the list as it is; the newest go first; the limit is off by one.
BugAfterHit(path) == lru
BugBack(list, n) == ToSet(SubSeq(list, 1, n))
BugTooMany(resident) == Cardinality(resident) > Limit + 1

-----------------------------------------------------------------------------
CacheInit == /\ textures = [p \in {} |-> 0]
             /\ lru = <<>>
             /\ live = {}
             /\ drawing = 0
             /\ readable \in SUBSET Paths
             /\ frame = {}
             /\ last = {}

\* touch_texture: remove takes every occurrence.
Touched(list, path) ==
  <<path>> \o Selected(list, {i \in DOMAIN list : list[i] # path})

\* evict_textures_if_needed takes paths from the back of the list until few
\* enough of them are resident, or the list is empty.
TooMany(resident) == Cardinality(resident) > Limit
Back(list, n) == ToSet(SubSeq(list, Len(list) - n + 1, Len(list)))
Taken(list, resident) ==
  Min({n \in 0..Len(list) : TooMany(resident \ Back(list, n)) => n = Len(list)})

AfterHit(path) == Touched(lru, path)

Hit(path) == /\ path \in Resident
             /\ lru' = AfterHit(path)
             /\ drawing' = textures[path]
             /\ frame' = frame \cup {path}
             /\ UNCHANGED <<textures, live, readable, last>>

\* The picture is read into a new texture, and others make room for it.
Load(path, id) ==
  /\ path \in readable \ Resident
  /\ id \in Ids \ live
  /\ LET loaded == [p \in Resident \cup {path} |-> IF p = path THEN id ELSE textures[p]]
         list == Touched(lru, path)
         n == Taken(list, DOMAIN loaded)
         gone == Back(list, n)
     IN  /\ textures' = Restrict(loaded, DOMAIN loaded \ gone)
         /\ lru' = SubSeq(list, 1, Len(list) - n)
         /\ live' = (live \cup {id}) \ {loaded[p] : p \in gone \cap DOMAIN loaded}
  /\ drawing' = id
  /\ frame' = frame \cup {path}
  /\ UNCHANGED <<readable, last>>

\* libvips throws: nothing is kept, and the next frame tries again.
LoadFails(path) == /\ path \notin readable \cup Resident
                   /\ drawing' = 0
                   /\ UNCHANGED <<textures, lru, live, readable, frame, last>>

\* The next frame.
Render == /\ last' = frame
          /\ frame' = {}
          /\ drawing' = 0
          /\ UNCHANGED <<textures, lru, live, readable>>

\* shutdown: clear_textures, also when the picker ends twice.
Shutdown == /\ live' = live \ {textures[p] : p \in Resident}
            /\ textures' = [p \in {} |-> 0]
            /\ lru' = <<>>
            /\ drawing' = 0
            /\ frame' = {}
            /\ last' = {}
            /\ UNCHANGED readable

\* A thumbnail or a preview is written or removed.
FileChanges(path) == /\ readable' = SymDiff(readable, {path})
                     /\ UNCHANGED <<textures, lru, live, drawing, frame, last>>

CacheNext == \/ \E p \in Paths : \/ Hit(p) \/ LoadFails(p) \/ FileChanges(p)
                                 \/ \E id \in Ids : Load(p, id)
             \/ Render \/ Shutdown

CacheSpec == CacheInit /\ [][CacheNext]_cacheVars

-----------------------------------------------------------------------------
(* Properties.                                                             *)

CacheTypeOK == /\ Resident \subseteq Paths
               /\ textures \in [Resident -> Ids]
               /\ lru \in Seq(Paths)
               /\ live \subseteq Ids
               /\ drawing \in Ids \cup {0}
               /\ readable \subseteq Paths
               /\ frame \subseteq Paths
               /\ last \subseteq Paths

\* Nothing leaks: the textures that exist are those of the map, one for each
\* path, each path is in the list once, so that it can be evicted, and there are
\* never more than the limit (touch_texture and evict_textures_if_needed keep
\* two containers in step).
NothingLeaks == /\ CacheTypeOK
                /\ IsInjective(lru)
                /\ live = {textures[p] : p \in Resident}
                /\ Cardinality(live) = Cardinality(Resident)
                /\ ToSet(lru) = Resident
                /\ Cardinality(live) <= Limit

\* What is drawn exists: eviction never takes the texture it made room for.
DrawnTextureExists == drawing # 0 => drawing \in live

\* Drawing a screen again loads nothing: a picture of the last frame is read
\* again only when the two frames together need more than the limit.
RedrawLoadsNothing ==
  [][\A p \in Paths, id \in Ids :
       Load(p, id) /\ p \in last => Cardinality(last \cup frame) > Limit]_cacheVars
=============================================================================
