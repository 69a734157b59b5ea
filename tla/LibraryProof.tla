---------------------------- MODULE LibraryProof ----------------------------
(***************************************************************************)
(* Proofs about Library, for every set of files, videos and scanners.      *)
(***************************************************************************)
EXTENDS Library, TLAPS

\* What a scanner holds at each of its steps.
StepInv == \A s \in Scanners :
  /\ pc[s] \notin {"idle", "walk"} => path[s] \in Paths
  /\ pc[s] \in {"making", "read", "upsert"} => thumb[path[s]] # None
  /\ pc[s] = "make" /\ path[s] \notin Videos => seen[s] \in Contents
  /\ pc[s] = "making" => seen[s] \in Contents
  /\ pc[s] = "upsert" => seen[s] # None

\* The flag of a row that is not there was never set.
ChoiceInv == \A p \in Paths : IF Indexed(p) THEN row[p].favorite = choice[p] ELSE ~choice[p]

\* The file is indexed as its thumbnail shows it.
Agrees(p) == Indexed(p) /\ row[p].colours = thumb[p]

\* A row is written behind its thumbnail.
ThumbInv == \A p \in Paths : Indexed(p) => thumb[p] # None

\* A thumbnail that is not whole is being filled, or is known to be torn.
WholeInv == \A p \in Paths : thumb[p] = Partial => Filling(p) # {} \/ p \in torn

\* What a scan that is alone has done so far, and what the last one left.
AloneInv ==
  /\ \A s \in alone : \A t \in Scanners \ {s} : pc[t] = "idle"
  /\ \A s \in alone : ~errors[s] =>
       \A p \in Paths \ todo[s] :
         file[p] # None /\ (pc[s] = "walk" \/ p # path[s]) => Agrees(p)
  /\ \A s \in alone : pc[s] = "upsert" => seen[s] = thumb[path[s]]
  /\ \A s \in alone : pc[s] # "idle"
  /\ settled # {} => \A s \in Scanners : pc[s] = "idle"
  /\ \A p \in settled : Agrees(p)

IInv == TypeOK /\ StepInv /\ ChoiceInv /\ ThumbInv /\ WholeInv /\ AloneInv

USE VideosAssumption, ContentsAssumption, NonesAssumption
USE DEF Rows, vars, scanVars, Indexed, Agrees

\* Records and flags, apart from any arithmetic or function.
LEMMA RowFacts ==
  /\ \A c \in Contents \cup {Partial}, f \in BOOLEAN :
       /\ [colours |-> c, favorite |-> f] \in Rows
       /\ [colours |-> c, favorite |-> f].colours = c
       /\ [colours |-> c, favorite |-> f].favorite = f
  /\ \A f \in BOOLEAN : \E g \in BOOLEAN : g = ~f
  <1>1. ASSUME NEW f \in BOOLEAN PROVE \E g \in BOOLEAN : g = ~f
    <2>1. CASE f = TRUE
      <3>1. FALSE = ~f
        BY <2>1
      <3> QED BY <3>1, Zenon
    <2>2. CASE f = FALSE
      <3>1. TRUE = ~f
        BY <2>2
      <3> QED BY <3>1, Zenon
    <2> QED BY <2>1, <2>2
  <1>2. \A c \in Contents \cup {Partial}, f \in BOOLEAN :
          [colours |-> c, favorite |-> f] \in Rows
    BY Zenon
  <1> QED BY <1>1, <1>2, Zenon

\* A row as upsert_wallpaper writes it.
LEMMA UpsertFacts ==
  ASSUME TypeOK, StepInv, NEW s \in Scanners, Upsert(s)
  PROVE  /\ path[s] \in Paths
         /\ \E new \in Rows :
              /\ row' = [row EXCEPT ![path[s]] = new]
              /\ new.colours = seen[s]
              /\ Indexed(path[s]) => new.favorite = row[path[s]].favorite
              /\ ~Indexed(path[s]) => ~new.favorite
  <1>1. path[s] \in Paths /\ seen[s] \in Contents \cup {Partial} /\ row[path[s]] \in Rows \cup {None}
    BY DEF Upsert, StepInv, TypeOK
  <1> DEFINE kept == IF row[path[s]] = None THEN FALSE ELSE row[path[s]].favorite
             new == Upserted(row[path[s]], seen[s])
  <1>2. kept \in BOOLEAN
    <2>1. CASE row[path[s]] = None
      BY <2>1, Zenon
    <2>2. CASE row[path[s]] # None
      BY <1>1, <2>2
    <2> QED BY <2>1, <2>2
  <1>3. new = [colours |-> seen[s], favorite |-> kept]
    BY Zenon DEF Upserted
  <1> HIDE DEF kept, new
  <1>4. new \in Rows
    BY <1>1, <1>2, <1>3, RowFacts, Zenon
  <1>5. row' = [row EXCEPT ![path[s]] = new]
    BY Zenon DEF Upsert, new
  <1>6. new.colours = seen[s] /\ new.favorite = kept
    BY <1>1, <1>2, <1>3, RowFacts, Zenon
  <1> QED BY <1>1, <1>4, <1>5, <1>6, Zenon DEF kept

\* The picker sets a flag that its copy has not.
LEMMA ToggleFacts ==
  ASSUME TypeOK, NEW p \in Paths, Toggle(p)
  PROVE  \E favorite \in BOOLEAN : SetFavorite(p, favorite) /\ view' = [view EXCEPT ![p] = favorite]
  <1>1. view[p] \in BOOLEAN
    BY DEF Toggle, TypeOK
  <1>2. PICK favorite \in BOOLEAN : favorite = ~view[p]
    BY <1>1, RowFacts
  <1>3. SetFavorite(p, ~view[p]) /\ view' = [view EXCEPT ![p] = ~view[p]]
    BY DEF Toggle
  <1> QED BY <1>2, <1>3, Zenon

\* The new database of migrate, with no scan running, has the invariant.
LEMMA InitIInv == Init => IInv
  <1> SUFFICES ASSUME Init PROVE IInv
    OBVIOUS
  <1>1. TypeOK
    BY DEF Init, TypeOK
  <1>2. StepInv /\ ChoiceInv /\ ThumbInv /\ WholeInv /\ AloneInv
    BY DEF Init, StepInv, ChoiceInv, ThumbInv, WholeInv, AloneInv
  <1> QED BY <1>1, <1>2 DEF IInv

\* Every step of a scan, of the user and of the files keeps the types.
LEMMA StepTypeOK == IInv /\ [Next]_vars => TypeOK'
  <1> SUFFICES ASSUME TypeOK, StepInv, [Next]_vars PROVE TypeOK'
    BY DEF IInv
  <1> USE DEF TypeOK
  <1>1. ASSUME NEW s \in Scanners, Begin(s) PROVE TypeOK'
    BY <1>1 DEF Begin
  <1>2. ASSUME NEW s \in Scanners, NEW p \in todo[s], Visit(s, p) PROVE TypeOK'
    BY <1>2 DEF Visit, Goto
  <1>3. ASSUME NEW s \in Scanners, CheckThumb(s) PROVE TypeOK'
    BY <1>3 DEF CheckThumb, Goto, StepInv
  <1>4. ASSUME NEW s \in Scanners, SourceFails(s) PROVE TypeOK'
    BY <1>4 DEF SourceFails, Caught, Return, Goto
  <1>5. ASSUME NEW s \in Scanners, BeginThumb(s) PROVE TypeOK'
    BY <1>5 DEF BeginThumb, Goto, StepInv
  <1>6. ASSUME NEW s \in Scanners, EndThumb(s) PROVE TypeOK'
    BY <1>6 DEF EndThumb, Written, Goto, StepInv
  <1>7. ASSUME NEW s \in Scanners, ThumbFails(s) PROVE TypeOK'
    BY <1>7 DEF ThumbFails, Caught, Return, LeftHalfWay, Goto, StepInv
  <1>8. ASSUME NEW s \in Scanners, ReadThumb(s) PROVE TypeOK'
    BY <1>8 DEF ReadThumb, Colours, Goto, StepInv
  <1>9. ASSUME NEW s \in Scanners, ReadFails(s) PROVE TypeOK'
    BY <1>9 DEF ReadFails, Caught, Return, Goto
  <1>10. ASSUME NEW s \in Scanners, Upsert(s) PROVE TypeOK'
    <2>1. PICK new \in Rows : /\ row' = [row EXCEPT ![path[s]] = new]
                              /\ new.colours = seen[s]
                              /\ Indexed(path[s]) => new.favorite = row[path[s]].favorite
                              /\ ~Indexed(path[s]) => ~new.favorite
      BY <1>10, UpsertFacts
    <2>2. row' \in [Paths -> Rows \cup {None}]
      BY <2>1
    <2>3. /\ pc' = [pc EXCEPT ![s] = "walk"]
          /\ path' = [path EXCEPT ![s] = None]
          /\ seen' = [seen EXCEPT ![s] = None]
      BY <1>10 DEF Upsert, Return, Goto
    <2>4. UNCHANGED <<file, thumb, todo, errors, view, choice, torn, alone, settled>>
      BY <1>10 DEF Upsert
    <2> QED BY <2>2, <2>3, <2>4
  <1>11. ASSUME NEW s \in Scanners, UpsertFails(s) PROVE TypeOK'
    BY <1>11 DEF UpsertFails, Caught, Return, Goto
  <1>12. ASSUME NEW s \in Scanners, End(s) PROVE TypeOK'
    BY <1>12 DEF End, Reset, Goto
  <1>13. ASSUME NEW s \in Scanners, Killed(s) PROVE TypeOK'
    BY <1>13 DEF Killed, Reset, Disturb, LeftHalfWay, Goto, StepInv
  <1>14. ASSUME NEW p \in Paths, ChangeFile(p) PROVE TypeOK'
    BY <1>14 DEF ChangeFile, Disturb
  <1>15. ASSUME NEW p \in Paths, Favorite(p) PROVE TypeOK'
    BY <1>15 DEF Favorite, SetFavorite
  <1>16. ASSUME NEW p \in Paths, Toggle(p) PROVE TypeOK'
    <2>1. PICK favorite \in BOOLEAN :
            SetFavorite(p, favorite) /\ view' = [view EXCEPT ![p] = favorite]
      BY <1>16, ToggleFacts
    <2> QED BY <2>1 DEF SetFavorite
  <1>17. CASE Refresh
    BY <1>17 DEF Refresh
  <1>18. CASE UNCHANGED vars
    BY <1>18
  <1> QED
    BY <1>1, <1>2, <1>3, <1>4, <1>5, <1>6, <1>7, <1>8, <1>9, <1>10,
       <1>11, <1>12, <1>13, <1>14, <1>15, <1>16, <1>17, <1>18 DEF Next, ScanStep

\* No step takes a thumbnail away.
LEMMA StepSteps == IInv /\ [Next]_vars => StepInv'
  <1> SUFFICES ASSUME TypeOK, StepInv, [Next]_vars PROVE StepInv'
    BY DEF IInv
  <1> USE DEF TypeOK, StepInv
  <1>1. ASSUME NEW s \in Scanners, Begin(s) PROVE StepInv'
    BY <1>1 DEF Begin
  <1>2. ASSUME NEW s \in Scanners, NEW p \in todo[s], Visit(s, p) PROVE StepInv'
    BY <1>2 DEF Visit, Goto
  <1>3. ASSUME NEW s \in Scanners, CheckThumb(s) PROVE StepInv'
    BY <1>3 DEF CheckThumb, Goto
  <1>4. ASSUME NEW s \in Scanners, SourceFails(s) PROVE StepInv'
    BY <1>4 DEF SourceFails, Caught, Return, Goto
  <1>5. ASSUME NEW s \in Scanners, BeginThumb(s) PROVE StepInv'
    BY <1>5 DEF BeginThumb, Goto
  <1>6. ASSUME NEW s \in Scanners, EndThumb(s) PROVE StepInv'
    BY <1>6 DEF EndThumb, Written, Goto
  <1>7. ASSUME NEW s \in Scanners, ThumbFails(s) PROVE StepInv'
    BY <1>7 DEF ThumbFails, Caught, Return, LeftHalfWay, Goto
  <1>8. ASSUME NEW s \in Scanners, ReadThumb(s) PROVE StepInv'
    BY <1>8 DEF ReadThumb, Colours, Goto
  <1>9. ASSUME NEW s \in Scanners, ReadFails(s) PROVE StepInv'
    BY <1>9 DEF ReadFails, Caught, Return, Goto
  <1>10. ASSUME NEW s \in Scanners, Upsert(s) PROVE StepInv'
    BY <1>10 DEF Upsert, Upserted, Return, Goto
  <1>11. ASSUME NEW s \in Scanners, UpsertFails(s) PROVE StepInv'
    BY <1>11 DEF UpsertFails, Caught, Return, Goto
  <1>12. ASSUME NEW s \in Scanners, End(s) PROVE StepInv'
    BY <1>12 DEF End, Reset, Goto
  <1>13. ASSUME NEW s \in Scanners, Killed(s) PROVE StepInv'
    BY <1>13 DEF Killed, Reset, Disturb, LeftHalfWay, Goto
  <1>14. ASSUME NEW p \in Paths, ChangeFile(p) PROVE StepInv'
    BY <1>14 DEF ChangeFile, Disturb
  <1>15. ASSUME NEW p \in Paths, Favorite(p) PROVE StepInv'
    BY <1>15 DEF Favorite, SetFavorite
  <1>16. ASSUME NEW p \in Paths, Toggle(p) PROVE StepInv'
    BY <1>16 DEF Toggle, SetFavorite
  <1>17. CASE Refresh
    BY <1>17 DEF Refresh
  <1>18. CASE UNCHANGED vars
    BY <1>18
  <1> QED
    BY <1>1, <1>2, <1>3, <1>4, <1>5, <1>6, <1>7, <1>8, <1>9, <1>10,
       <1>11, <1>12, <1>13, <1>14, <1>15, <1>16, <1>17, <1>18 DEF Next, ScanStep

\* A row that is written keeps its flag, and a new one starts without.
LEMMA StepChoice == IInv /\ [Next]_vars => ChoiceInv'
  <1> SUFFICES ASSUME TypeOK, StepInv, ChoiceInv, [Next]_vars PROVE ChoiceInv'
    BY DEF IInv
  <1> USE DEF TypeOK, ChoiceInv
  <1>1. ASSUME NEW s \in Scanners, Begin(s) PROVE ChoiceInv'
    BY <1>1 DEF Begin
  <1>2. ASSUME NEW s \in Scanners, NEW p \in todo[s], Visit(s, p) PROVE ChoiceInv'
    BY <1>2 DEF Visit, Goto
  <1>3. ASSUME NEW s \in Scanners, CheckThumb(s) PROVE ChoiceInv'
    BY <1>3 DEF CheckThumb, Goto
  <1>4. ASSUME NEW s \in Scanners, SourceFails(s) PROVE ChoiceInv'
    BY <1>4 DEF SourceFails, Caught, Return, Goto
  <1>5. ASSUME NEW s \in Scanners, BeginThumb(s) PROVE ChoiceInv'
    BY <1>5 DEF BeginThumb, Goto
  <1>6. ASSUME NEW s \in Scanners, EndThumb(s) PROVE ChoiceInv'
    BY <1>6 DEF EndThumb, Written, Goto
  <1>7. ASSUME NEW s \in Scanners, ThumbFails(s) PROVE ChoiceInv'
    BY <1>7 DEF ThumbFails, Caught, Return, LeftHalfWay, Goto
  <1>8. ASSUME NEW s \in Scanners, ReadThumb(s) PROVE ChoiceInv'
    BY <1>8 DEF ReadThumb, Colours, Goto
  <1>9. ASSUME NEW s \in Scanners, ReadFails(s) PROVE ChoiceInv'
    BY <1>9 DEF ReadFails, Caught, Return, Goto
  <1>10. ASSUME NEW s \in Scanners, Upsert(s) PROVE ChoiceInv'
    <2>1. PICK new \in Rows : /\ row' = [row EXCEPT ![path[s]] = new]
                              /\ new.colours = seen[s]
                              /\ Indexed(path[s]) => new.favorite = row[path[s]].favorite
                              /\ ~Indexed(path[s]) => ~new.favorite
      BY <1>10, UpsertFacts
    <2> QED BY <1>10, <2>1, UpsertFacts DEF Upsert, Return, Goto, StepInv
  <1>11. ASSUME NEW s \in Scanners, UpsertFails(s) PROVE ChoiceInv'
    BY <1>11 DEF UpsertFails, Caught, Return, Goto
  <1>12. ASSUME NEW s \in Scanners, End(s) PROVE ChoiceInv'
    BY <1>12 DEF End, Reset, Goto
  <1>13. ASSUME NEW s \in Scanners, Killed(s) PROVE ChoiceInv'
    BY <1>13 DEF Killed, Reset, Disturb, LeftHalfWay, Goto
  <1>14. ASSUME NEW p \in Paths, ChangeFile(p) PROVE ChoiceInv'
    BY <1>14 DEF ChangeFile, Disturb
  <1>15. ASSUME NEW p \in Paths, Favorite(p) PROVE ChoiceInv'
    BY <1>15 DEF Favorite, SetFavorite
  <1>16. ASSUME NEW p \in Paths, Toggle(p) PROVE ChoiceInv'
    <2>1. PICK favorite \in BOOLEAN :
            SetFavorite(p, favorite) /\ view' = [view EXCEPT ![p] = favorite]
      BY <1>16, ToggleFacts
    <2> QED BY <2>1 DEF SetFavorite
  <1>17. CASE Refresh
    BY <1>17 DEF Refresh
  <1>18. CASE UNCHANGED vars
    BY <1>18
  <1> QED
    BY <1>1, <1>2, <1>3, <1>4, <1>5, <1>6, <1>7, <1>8, <1>9, <1>10,
       <1>11, <1>12, <1>13, <1>14, <1>15, <1>16, <1>17, <1>18 DEF Next, ScanStep

\* A row is written only past the thumbnail's making.
LEMMA StepThumbnail == IInv /\ [Next]_vars => ThumbInv'
  <1> SUFFICES ASSUME TypeOK, StepInv, ThumbInv, [Next]_vars PROVE ThumbInv'
    BY DEF IInv
  <1> USE DEF TypeOK, ThumbInv
  <1>1. ASSUME NEW s \in Scanners, Begin(s) PROVE ThumbInv'
    BY <1>1 DEF Begin
  <1>2. ASSUME NEW s \in Scanners, NEW p \in todo[s], Visit(s, p) PROVE ThumbInv'
    BY <1>2 DEF Visit, Goto
  <1>3. ASSUME NEW s \in Scanners, CheckThumb(s) PROVE ThumbInv'
    BY <1>3 DEF CheckThumb, Goto
  <1>4. ASSUME NEW s \in Scanners, SourceFails(s) PROVE ThumbInv'
    BY <1>4 DEF SourceFails, Caught, Return, Goto
  <1>5. ASSUME NEW s \in Scanners, BeginThumb(s) PROVE ThumbInv'
    BY <1>5 DEF BeginThumb, Goto
  <1>6. ASSUME NEW s \in Scanners, EndThumb(s) PROVE ThumbInv'
    <2>1. PICK c \in {seen[s], Partial} : thumb' = [thumb EXCEPT ![path[s]] = c]
      BY <1>6 DEF EndThumb, Written
    <2>2. c # None
      BY <1>6, <2>1 DEF EndThumb, StepInv
    <2> QED BY <1>6, <2>1, <2>2 DEF EndThumb
  <1>7. ASSUME NEW s \in Scanners, ThumbFails(s) PROVE ThumbInv'
    BY <1>7 DEF ThumbFails, Caught, Return, LeftHalfWay, Goto
  <1>8. ASSUME NEW s \in Scanners, ReadThumb(s) PROVE ThumbInv'
    BY <1>8 DEF ReadThumb, Colours, Goto
  <1>9. ASSUME NEW s \in Scanners, ReadFails(s) PROVE ThumbInv'
    BY <1>9 DEF ReadFails, Caught, Return, Goto
  <1>10. ASSUME NEW s \in Scanners, Upsert(s) PROVE ThumbInv'
    <2>1. PICK new \in Rows : /\ row' = [row EXCEPT ![path[s]] = new]
                              /\ new.colours = seen[s]
                              /\ Indexed(path[s]) => new.favorite = row[path[s]].favorite
                              /\ ~Indexed(path[s]) => ~new.favorite
      BY <1>10, UpsertFacts
    <2> QED BY <1>10, <2>1, UpsertFacts DEF Upsert, Return, Goto, StepInv
  <1>11. ASSUME NEW s \in Scanners, UpsertFails(s) PROVE ThumbInv'
    BY <1>11 DEF UpsertFails, Caught, Return, Goto
  <1>12. ASSUME NEW s \in Scanners, End(s) PROVE ThumbInv'
    BY <1>12 DEF End, Reset, Goto
  <1>13. ASSUME NEW s \in Scanners, Killed(s) PROVE ThumbInv'
    BY <1>13 DEF Killed, Reset, Disturb, LeftHalfWay, Goto
  <1>14. ASSUME NEW p \in Paths, ChangeFile(p) PROVE ThumbInv'
    BY <1>14 DEF ChangeFile, Disturb
  <1>15. ASSUME NEW p \in Paths, Favorite(p) PROVE ThumbInv'
    BY <1>15 DEF Favorite, SetFavorite
  <1>16. ASSUME NEW p \in Paths, Toggle(p) PROVE ThumbInv'
    BY <1>16 DEF Toggle, SetFavorite
  <1>17. CASE Refresh
    BY <1>17 DEF Refresh
  <1>18. CASE UNCHANGED vars
    BY <1>18
  <1> QED
    BY <1>1, <1>2, <1>3, <1>4, <1>5, <1>6, <1>7, <1>8, <1>9, <1>10,
       <1>11, <1>12, <1>13, <1>14, <1>15, <1>16, <1>17, <1>18 DEF Next, ScanStep

\* A thumbnail stops being filled whole, or is known to be torn.
LEMMA StepWhole == IInv /\ [Next]_vars => WholeInv'
  <1> SUFFICES ASSUME TypeOK, StepInv, WholeInv, [Next]_vars PROVE WholeInv'
    BY DEF IInv
  <1> USE DEF TypeOK, StepInv, WholeInv, Filling
  <1>1. ASSUME NEW s \in Scanners, Begin(s) PROVE WholeInv'
    BY <1>1 DEF Begin
  <1>2. ASSUME NEW s \in Scanners, NEW p \in todo[s], Visit(s, p) PROVE WholeInv'
    BY <1>2 DEF Visit, Goto
  <1>3. ASSUME NEW s \in Scanners, CheckThumb(s) PROVE WholeInv'
    BY <1>3 DEF CheckThumb, Goto
  <1>4. ASSUME NEW s \in Scanners, SourceFails(s) PROVE WholeInv'
    BY <1>4 DEF SourceFails, Caught, Return, Goto
  <1>5. ASSUME NEW s \in Scanners, BeginThumb(s) PROVE WholeInv'
    BY <1>5 DEF BeginThumb, Goto
  <1>6. ASSUME NEW s \in Scanners, EndThumb(s) PROVE WholeInv'
    <2>1. PICK c \in Written(s) :
            /\ thumb' = [thumb EXCEPT ![path[s]] = c]
            /\ torn' = IF c = Partial \/ Filling(path[s]) # {s} THEN torn ELSE torn \ {path[s]}
      BY <1>6, Zenon DEF EndThumb
    <2>2. seen[s] \in Contents /\ path[s] \in Paths
      BY <1>6 DEF EndThumb
    <2>3. c \in Contents \cup {Partial} /\ (c = Partial => path[s] \in torn)
      BY <2>1, <2>2 DEF Written
    <2> QED BY <1>6, <2>1, <2>2, <2>3 DEF EndThumb, Goto
  <1>7. ASSUME NEW s \in Scanners, ThumbFails(s) PROVE WholeInv'
    BY <1>7 DEF ThumbFails, Caught, Return, LeftHalfWay, Goto
  <1>8. ASSUME NEW s \in Scanners, ReadThumb(s) PROVE WholeInv'
    BY <1>8 DEF ReadThumb, Colours, Goto
  <1>9. ASSUME NEW s \in Scanners, ReadFails(s) PROVE WholeInv'
    BY <1>9 DEF ReadFails, Caught, Return, Goto
  <1>10. ASSUME NEW s \in Scanners, Upsert(s) PROVE WholeInv'
    BY <1>10 DEF Upsert, Return, Goto
  <1>11. ASSUME NEW s \in Scanners, UpsertFails(s) PROVE WholeInv'
    BY <1>11 DEF UpsertFails, Caught, Return, Goto
  <1>12. ASSUME NEW s \in Scanners, End(s) PROVE WholeInv'
    BY <1>12 DEF End, Reset, Goto
  <1>13. ASSUME NEW s \in Scanners, Killed(s) PROVE WholeInv'
    BY <1>13 DEF Killed, Reset, Disturb, LeftHalfWay, Goto
  <1>14. ASSUME NEW p \in Paths, ChangeFile(p) PROVE WholeInv'
    BY <1>14 DEF ChangeFile
  <1>15. ASSUME NEW p \in Paths, Favorite(p) PROVE WholeInv'
    BY <1>15 DEF Favorite, SetFavorite
  <1>16. ASSUME NEW p \in Paths, Toggle(p) PROVE WholeInv'
    BY <1>16 DEF Toggle, SetFavorite
  <1>17. CASE Refresh
    BY <1>17 DEF Refresh
  <1>18. CASE UNCHANGED vars
    BY <1>18
  <1> QED
    BY <1>1, <1>2, <1>3, <1>4, <1>5, <1>6, <1>7, <1>8, <1>9, <1>10,
       <1>11, <1>12, <1>13, <1>14, <1>15, <1>16, <1>17, <1>18 DEF Next, ScanStep

\* A scan that is alone finds what it left.
LEMMA StepAlone == IInv /\ [Next]_vars => AloneInv'
  <1> SUFFICES ASSUME TypeOK, StepInv, AloneInv, [Next]_vars PROVE AloneInv'
    BY DEF IInv
  <1> USE DEF TypeOK, AloneInv
  <1>1. ASSUME NEW s \in Scanners, Begin(s) PROVE AloneInv'
    <2>1. CASE Idle
      <3>1. alone' = {s} /\ todo'[s] = Paths /\ pc'[s] = "walk" /\ settled' = {}
        BY <1>1, <2>1 DEF Begin
      <3>2. \A t \in Scanners \ {s} : pc'[t] = "idle"
        BY <1>1, <2>1 DEF Begin, Idle
      <3> QED BY <3>1, <3>2
    <2>2. CASE ~Idle
      BY <1>1, <2>2 DEF Begin
    <2> QED BY <2>1, <2>2
  <1>2. ASSUME NEW s \in Scanners, NEW p \in todo[s], Visit(s, p) PROVE AloneInv'
    BY <1>2 DEF Visit, Goto
  <1>3. ASSUME NEW s \in Scanners, CheckThumb(s) PROVE AloneInv'
    BY <1>3 DEF CheckThumb, Goto
  <1>4. ASSUME NEW s \in Scanners, SourceFails(s) PROVE AloneInv'
    BY <1>4 DEF SourceFails, Caught, Return, Goto
  <1>5. ASSUME NEW s \in Scanners, BeginThumb(s) PROVE AloneInv'
    BY <1>5 DEF BeginThumb, Goto
  <1>6. ASSUME NEW s \in Scanners, EndThumb(s) PROVE AloneInv'
    BY <1>6 DEF EndThumb, Written, Goto
  <1>7. ASSUME NEW s \in Scanners, ThumbFails(s) PROVE AloneInv'
    BY <1>7 DEF ThumbFails, Caught, Return, LeftHalfWay, Goto
  <1>8. ASSUME NEW s \in Scanners, ReadThumb(s) PROVE AloneInv'
    BY <1>8 DEF ReadThumb, Colours, Goto
  <1>9. ASSUME NEW s \in Scanners, ReadFails(s) PROVE AloneInv'
    BY <1>9 DEF ReadFails, Caught, Return, Goto
  <1>10. ASSUME NEW s \in Scanners, Upsert(s) PROVE AloneInv'
    <2>1. PICK new \in Rows : /\ row' = [row EXCEPT ![path[s]] = new]
                              /\ new.colours = seen[s]
                              /\ Indexed(path[s]) => new.favorite = row[path[s]].favorite
                              /\ ~Indexed(path[s]) => ~new.favorite
      BY <1>10, UpsertFacts
    <2> QED BY <1>10, <2>1, UpsertFacts DEF Upsert, Return, Goto, StepInv
  <1>11. ASSUME NEW s \in Scanners, UpsertFails(s) PROVE AloneInv'
    BY <1>11 DEF UpsertFails, Caught, Return, Goto
  <1>12. ASSUME NEW s \in Scanners, End(s) PROVE AloneInv'
    BY <1>12 DEF End, Reset, Goto
  <1>13. ASSUME NEW s \in Scanners, Killed(s) PROVE AloneInv'
    BY <1>13 DEF Killed, Reset, Disturb, LeftHalfWay, Goto
  <1>14. ASSUME NEW p \in Paths, ChangeFile(p) PROVE AloneInv'
    BY <1>14 DEF ChangeFile, Disturb
  <1>15. ASSUME NEW p \in Paths, Favorite(p) PROVE AloneInv'
    BY <1>15 DEF Favorite, SetFavorite
  <1>16. ASSUME NEW p \in Paths, Toggle(p) PROVE AloneInv'
    <2>1. PICK favorite \in BOOLEAN :
            SetFavorite(p, favorite) /\ view' = [view EXCEPT ![p] = favorite]
      BY <1>16, ToggleFacts
    <2> QED BY <2>1 DEF SetFavorite
  <1>17. CASE Refresh
    BY <1>17 DEF Refresh
  <1>18. CASE UNCHANGED vars
    BY <1>18
  <1> QED
    BY <1>1, <1>2, <1>3, <1>4, <1>5, <1>6, <1>7, <1>8, <1>9, <1>10,
       <1>11, <1>12, <1>13, <1>14, <1>15, <1>16, <1>17, <1>18 DEF Next, ScanStep

\* The strengthened invariant holds throughout: the parts, each with its
\* step lemma, depend on one another only through the unprimed state.
THEOREM IInvHolds == Spec => []IInv
  <1>1. IInv /\ [Next]_vars => IInv'
    BY StepTypeOK, StepSteps, StepChoice, StepThumbnail, StepWhole, StepAlone DEF IInv
  <1> QED BY InitIInv, <1>1, PTL DEF Spec

\* Files, thumbnails, rows and scanners keep their types.
THEOREM TypeCorrect == Spec => []TypeOK
  <1>1. IInv => TypeOK
    BY DEF IInv
  <1> QED BY IInvHolds, <1>1, PTL

\* No scan undoes set_favorite: upsert_wallpaper leaves the flag of a row alone.
THEOREM FavoritesAreKept == Spec => []FavoriteIsTheUsersChoice
  <1>1. IInv => FavoriteIsTheUsersChoice
    BY DEF IInv, ChoiceInv, FavoriteIsTheUsersChoice
  <1> QED BY IInvHolds, <1>1, PTL

\* index_one writes no row before a thumbnail file exists, for every number of scans
\* that overlap, fail or are killed; and the file of a row is not whole only while a
\* scan fills it again, or when one that filled it was killed or failed half way, or
\* when two filled it at once (write_to_file, ffmpeg -y).
THEOREM RowsHaveThumbnails == Spec => []IndexedHasThumbnail
  <1>1. IInv => IndexedHasThumbnail
    BY DEF IInv, ThumbInv, WholeInv, IndexedHasThumbnail
  <1> QED BY IInvHolds, <1>1, PTL

\* scan_wallpapers, undisturbed and with no error, indexes every file by the thumbnail
\* there is, be it torn.
THEOREM ScansSettle == Spec => []ScanSettles
  <1>1. IInv => ScanSettles
    BY DEF IInv, AloneInv, ScanSettles
  <1> QED BY IInvHolds, <1>1, PTL
=============================================================================
