--------------------------- MODULE DownloadsProof ---------------------------
(***************************************************************************)
(* Proofs about Downloads, for every set of paths and downloaders and every *)
(* number of pieces.                                                       *)
(***************************************************************************)
EXTENDS Downloads, TLAPS

\* A downloader that is not idle has a path; its file is the one there while it
\* is attached.
FileInv == \A d \in Downloaders :
  /\ pc[d] # "idle" <=> file[d] # None
  /\ d \in attached => pc[d] = "receive" /\ Exists(file[d])
  /\ pc[d] \notin {"receive", "returned", "failed"} => pos[d] = 0

\* A piece that is missing will still be written, and a file with a piece of a
\* page will be removed, by a downloader that is at work on it.
Owed(f, k) == \E d \in attached : file[d] = f /\ pos[d] < k
Refused(f) == \E d \in attached : file[d] = f /\ answer[d] = "page"
PiecesInv ==
  \A f \in Files : Exists(f) /\ f \notin damaged =>
    \A k \in 1..Pieces : /\ data[f][k] = "hole" => Owed(f, k)
                         /\ data[f][k] = "page" => Refused(f)

\* Who has had no company at its path is the only one there, and finds its file.
SharedInv ==
  \A d \in Downloaders : pc[d] # "idle" /\ d \notin shared =>
    /\ \A e \in Downloaders : file[e] = file[d] => e = d
    /\ pc[d] \in {"receive", "returned"} => Exists(file[d])

\* Who finds no file at its path knows that it was removed behind its back; who
\* downloads by itself a preview a row already names replaces a lost one.
LostInv ==
  /\ \A d \in Downloaders :
       /\ pc[d] \in {"receive", "returned"} /\ ~Exists(file[d]) => file[d] \in lost
       /\ pc[d] \in {"open", "receive"} /\ d \notin shared /\ file[d] \in Previews
            /\ row[file[d]] = TRUE => file[d] \in lost
  /\ NamedPreviewExists

USE FilesAssumption, PiecesAssumption, NonesAssumption
USE DEF vars, transferVars, historyVars, Files, Answers

\* A piece that arrives changes that piece of that file.
LEMMA ReceiveFacts ==
  ASSUME TypeOK, FileInv, NEW d \in Downloaders, Receive(d)
  PROVE  /\ pc[d] = "receive" /\ pos[d] < Pieces
         /\ pos' = [pos EXCEPT ![d] = @ + 1]
         /\ UNCHANGED <<row, pc, file, answer, attached, historyVars>>
         /\ data' \in [Files -> Contents \cup {None}]
         /\ \A f \in Files : Exists(f)' <=> Exists(f)
         /\ \A f \in Files : Exists(f) => \A k \in 1..Pieces :
              data'[f][k] = IF d \in attached /\ f = file[d] /\ k = pos[d] + 1
                            THEN answer[d] ELSE data[f][k]
  <1> USE DEF TypeOK, Exists
  <1>0. /\ pc[d] = "receive" /\ pos[d] < Pieces
        /\ pos' = [pos EXCEPT ![d] = @ + 1]
        /\ UNCHANGED <<row, pc, file, answer, attached, historyVars>>
    BY DEF Receive
  <1>1. CASE d \notin attached
    BY <1>0, <1>1 DEF Receive
  <1>2. CASE d \in attached
    <2> DEFINE p == pos[d] + 1
               new == [data[file[d]] EXCEPT ![p] = answer[d]]
    <2>1. /\ p \in 1..Pieces /\ answer[d] \in Answers /\ pos'[d] = p
          /\ file[d] \in Files /\ data[file[d]] \in Contents
      BY <1>2 DEF Receive, FileInv
    <2>2. data' = [data EXCEPT ![file[d]] = new]
      BY <1>2, <2>1 DEF Receive
    <2>3. new \in Contents /\ \A k \in 1..Pieces :
            new[k] = IF k = p THEN answer[d] ELSE data[file[d]][k]
      BY <2>1 DEF Contents
    <2> HIDE DEF new, p
    <2>4. data' \in [Files -> Contents \cup {None}]
      BY <2>2, <2>3
    <2>5. \A f \in Files : data'[f] = IF f = file[d] THEN new ELSE data[f]
      BY <2>2
    <2>6. \A f \in Files : Exists(f)' <=> Exists(f)
      BY <2>1, <2>3, <2>5
    <2>7. \A f \in Files : Exists(f) => \A k \in 1..Pieces :
            data'[f][k] = IF d \in attached /\ f = file[d] /\ k = p THEN answer[d] ELSE data[f][k]
      BY <1>2, <2>3, <2>5
    <2> QED
      BY <1>0, <2>4, <2>6, <2>7 DEF p
  <1> QED
    BY <1>1, <1>2

\* Every step keeps the types.
LEMMA StepTypeOK == TypeOK /\ FileInv /\ [Next]_vars => TypeOK'
  <1> SUFFICES ASSUME TypeOK, FileInv, [Next]_vars PROVE TypeOK'
    OBVIOUS
  <1> USE DEF TypeOK, FileInv, Steps, Contents
  <1>1. ASSUME NEW d \in Downloaders, NEW f \in Files, Ask(d, f) PROVE TypeOK'
    <2>1. row' \in [Previews -> BOOLEAN \cup {None}]
      BY <1>1 DEF Ask
    <2>2. data' \in [Files -> Contents \cup {None}]
      BY <1>1 DEF Ask, Contents
    <2>3. pc' \in [Downloaders -> Steps] /\ file' \in [Downloaders -> Files \cup {None}]
      BY <1>1 DEF Ask, AfterAsk, Goto, Steps
    <2>4. pos' \in [Downloaders -> 0..Pieces] /\ answer' \in [Downloaders -> Answers]
      BY <1>1 DEF Ask, AfterAsk, Goto
    <2>5. /\ attached' \subseteq Downloaders /\ damaged' \subseteq Files
          /\ shared' \subseteq Downloaders /\ lost' \subseteq Files
      BY <1>1 DEF Ask, AfterAsk, Goto, At
    <2> QED
      BY <2>1, <2>2, <2>3, <2>4, <2>5
  <1>2. ASSUME NEW d \in Downloaders, OpenFails(d) PROVE TypeOK'
    BY <1>2 DEF OpenFails, Goto
  <1>3. ASSUME NEW d \in Downloaders, Open(d) PROVE TypeOK'
    BY <1>3 DEF Open, Goto
  <1>4. ASSUME NEW d \in Downloaders, Receive(d) PROVE TypeOK'
    <2>1. row' \in [Previews -> BOOLEAN \cup {None}]
      BY <1>4, ReceiveFacts
    <2>2. data' \in [Files -> Contents \cup {None}]
      BY <1>4, ReceiveFacts
    <2>3. pc' \in [Downloaders -> Steps] /\ file' \in [Downloaders -> Files \cup {None}]
      BY <1>4, ReceiveFacts DEF Steps
    <2>4. pos' \in [Downloaders -> 0..Pieces] /\ answer' \in [Downloaders -> Answers]
      BY <1>4, ReceiveFacts
    <2>5. /\ attached' \subseteq Downloaders /\ damaged' \subseteq Files
          /\ shared' \subseteq Downloaders /\ lost' \subseteq Files
      BY <1>4, ReceiveFacts DEF At
    <2> QED
      BY <2>1, <2>2, <2>3, <2>4, <2>5
  <1>5. ASSUME NEW d \in Downloaders, DiskFull(d) PROVE TypeOK'
    BY <1>5 DEF DiskFull
  <1>6. ASSUME NEW d \in Downloaders, Complete(d) PROVE TypeOK'
    BY <1>6 DEF Complete, Accepted, Goto
  <1>7. ASSUME NEW d \in Downloaders, Fail(d) PROVE TypeOK'
    <2>1. row' \in [Previews -> BOOLEAN \cup {None}]
      BY <1>7 DEF Fail
    <2>2. data' \in [Files -> Contents \cup {None}]
      BY <1>7 DEF Fail, Contents
    <2>3. pc' \in [Downloaders -> Steps] /\ file' \in [Downloaders -> Files \cup {None}]
      BY <1>7 DEF Fail, Accepted, Kept, Goto, Steps
    <2>4. pos' \in [Downloaders -> 0..Pieces] /\ answer' \in [Downloaders -> Answers]
      BY <1>7 DEF Fail, Accepted, Kept, Goto
    <2>5. /\ attached' \subseteq Downloaders /\ damaged' \subseteq Files
          /\ shared' \subseteq Downloaders /\ lost' \subseteq Files
      BY <1>7 DEF Fail, Accepted, Kept, Goto, At
    <2> QED
      BY <2>1, <2>2, <2>3, <2>4, <2>5
  <1>8. ASSUME NEW d \in Downloaders, Store(d) PROVE TypeOK'
    BY <1>8 DEF Store, Leaves, Goto
  <1>9. ASSUME NEW d \in Downloaders, Dismiss(d) PROVE TypeOK'
    BY <1>9 DEF Dismiss, Leaves, Goto
  <1>10. ASSUME NEW d \in Downloaders, Killed(d) PROVE TypeOK'
    BY <1>10 DEF Killed, Leaves, Goto
  <1>11. ASSUME NEW f \in Files, Removed(f) PROVE TypeOK'
    <2>1. row' \in [Previews -> BOOLEAN \cup {None}]
      BY <1>11 DEF Removed
    <2>2. data' \in [Files -> Contents \cup {None}]
      BY <1>11 DEF Removed, Contents
    <2>3. pc' \in [Downloaders -> Steps] /\ file' \in [Downloaders -> Files \cup {None}]
      BY <1>11 DEF Removed, Steps
    <2>4. pos' \in [Downloaders -> 0..Pieces] /\ answer' \in [Downloaders -> Answers]
      BY <1>11 DEF Removed
    <2>5. /\ attached' \subseteq Downloaders /\ damaged' \subseteq Files
          /\ shared' \subseteq Downloaders /\ lost' \subseteq Files
      BY <1>11 DEF Removed, At
    <2> QED
      BY <2>1, <2>2, <2>3, <2>4, <2>5
  <1>12. CASE UNCHANGED vars
    BY <1>12
  <1> QED
    BY <1>1, <1>2, <1>3, <1>4, <1>5, <1>6, <1>7, <1>8, <1>9, <1>10, <1>11, <1>12 DEF Next, DownloaderStep

\* A downloader is attached from its Open to the end of its file.
LEMMA StepFile == TypeOK /\ FileInv /\ [Next]_vars => FileInv'
  <1> SUFFICES ASSUME TypeOK, FileInv, [Next]_vars PROVE FileInv'
    OBVIOUS
  <1> USE DEF TypeOK, FileInv, Steps, Contents, Exists, At
  <1>1. ASSUME NEW d \in Downloaders, NEW f \in Files, Ask(d, f) PROVE FileInv'
    BY <1>1 DEF Ask, AfterAsk, Goto
  <1>2. ASSUME NEW d \in Downloaders, OpenFails(d) PROVE FileInv'
    BY <1>2 DEF OpenFails, Goto
  <1>3. ASSUME NEW d \in Downloaders, Open(d) PROVE FileInv'
    BY <1>3 DEF Open, Goto
  <1>4. ASSUME NEW d \in Downloaders, Receive(d) PROVE FileInv'
    BY <1>4, ReceiveFacts
  <1>5. ASSUME NEW d \in Downloaders, DiskFull(d) PROVE FileInv'
    BY <1>5 DEF DiskFull
  <1>6. ASSUME NEW d \in Downloaders, Complete(d) PROVE FileInv'
    BY <1>6 DEF Complete, Accepted, Goto
  <1>7. ASSUME NEW d \in Downloaders, Fail(d) PROVE FileInv'
    BY <1>7 DEF Fail, Accepted, Kept, Goto
  <1>8. ASSUME NEW d \in Downloaders, Store(d) PROVE FileInv'
    BY <1>8 DEF Store, Leaves, Goto
  <1>9. ASSUME NEW d \in Downloaders, Dismiss(d) PROVE FileInv'
    BY <1>9 DEF Dismiss, Leaves, Goto
  <1>10. ASSUME NEW d \in Downloaders, Killed(d) PROVE FileInv'
    BY <1>10 DEF Killed, Leaves, Goto
  <1>11. ASSUME NEW f \in Files, Removed(f) PROVE FileInv'
    BY <1>11 DEF Removed
  <1>12. CASE UNCHANGED vars
    BY <1>12
  <1> QED
    BY <1>1, <1>2, <1>3, <1>4, <1>5, <1>6, <1>7, <1>8, <1>9, <1>10, <1>11, <1>12 DEF Next, DownloaderStep

\* What a file lacks is owed by somebody attached to it.
LEMMA StepPieces == TypeOK /\ FileInv /\ PiecesInv /\ [Next]_vars => PiecesInv'
  <1> SUFFICES ASSUME TypeOK, FileInv, PiecesInv, [Next]_vars PROVE PiecesInv'
    OBVIOUS
  <1> USE DEF TypeOK, FileInv, PiecesInv, Owed, Refused, Steps, Contents, Exists, At
  <1>1. ASSUME NEW d \in Downloaders, NEW f \in Files, Ask(d, f) PROVE PiecesInv'
    BY <1>1 DEF Ask, AfterAsk, Goto
  <1>2. ASSUME NEW d \in Downloaders, OpenFails(d) PROVE PiecesInv'
    BY <1>2 DEF OpenFails, Goto
  <1>3. ASSUME NEW d \in Downloaders, Open(d) PROVE PiecesInv'
    <2>0. pc[d] = "open"
      BY <1>3 DEF Open
    <2>1. pos[d] = 0 /\ d \notin attached /\ file[d] \in Files
      BY <2>0
    <2>2. /\ \A e \in attached : answer'[e] = answer[e]
          /\ pos' = pos /\ file' = file /\ attached' = attached \cup {d}
      BY <1>3, <2>1 DEF Open
    <2>3. \A f \in Files \ {file[d]} : data'[f] = data[f] /\ (f \in damaged' <=> f \in damaged)
      BY <1>3, <2>1 DEF Open
    <2>4. \A f \in Files, k \in 1..Pieces : f = file[d] => data'[f][k] = "hole" /\ Owed(f, k)'
      BY <1>3, <2>1, <2>2 DEF Open
    <2>5. \A f \in Files : /\ Refused(f) => Refused(f)'
                          /\ \A k \in 1..Pieces : Owed(f, k) => Owed(f, k)'
      BY <2>2
    <2> SUFFICES ASSUME NEW f \in Files, Exists(f)', f \notin damaged', NEW k \in 1..Pieces
                 PROVE  /\ data'[f][k] = "hole" => Owed(f, k)'
                        /\ data'[f][k] = "page" => Refused(f)'
      OBVIOUS
    <2>6. CASE f = file[d]
      BY <2>4, <2>6
    <2>7. CASE f # file[d]
      <3>1. data'[f] = data[f] /\ Exists(f) /\ f \notin damaged
        BY <2>3, <2>7
      <3>2. /\ data[f][k] = "hole" => Owed(f, k)
            /\ data[f][k] = "page" => Refused(f)
        BY <3>1
      <3> HIDE DEF Owed, Refused
      <3> QED
        BY <2>5, <3>1, <3>2
    <2> QED
      BY <2>6, <2>7
  <1>4. ASSUME NEW d \in Downloaders, Receive(d) PROVE PiecesInv'
    <2>1. \A f \in Files : Refused(f) => Refused(f)'
      BY <1>4, ReceiveFacts
    <2>2. \A f \in Files, k \in 1..Pieces :
            Owed(f, k) => Owed(f, k)' \/ (d \in attached /\ f = file[d] /\ k = pos[d] + 1)
      BY <1>4, ReceiveFacts
    <2>3. \A f \in Files : d \in attached /\ f = file[d] /\ answer[d] = "page" => Refused(f)'
      BY <1>4, ReceiveFacts
    <2>4. \A f \in Files : (Exists(f)' <=> Exists(f)) /\ (f \in damaged' <=> f \in damaged)
      BY <1>4, ReceiveFacts
    <2>5. answer[d] # "hole"
      OBVIOUS
    <2> SUFFICES ASSUME NEW f \in Files, Exists(f)', f \notin damaged', NEW k \in 1..Pieces
                 PROVE  /\ data'[f][k] = "hole" => Owed(f, k)'
                        /\ data'[f][k] = "page" => Refused(f)'
      OBVIOUS
    <2>6. CASE d \in attached /\ f = file[d] /\ k = pos[d] + 1
      <3>1. data'[f][k] = answer[d]
        BY <1>4, <2>4, <2>6, ReceiveFacts
      <3> QED
        BY <2>3, <2>5, <2>6, <3>1
    <2>7. CASE ~(d \in attached /\ f = file[d] /\ k = pos[d] + 1)
      <3>1. data'[f][k] = data[f][k]
        BY <1>4, <2>4, <2>7, ReceiveFacts
      <3> QED
        BY <2>1, <2>2, <2>4, <2>7, <3>1
    <2> QED
      BY <2>6, <2>7
  <1>5. ASSUME NEW d \in Downloaders, DiskFull(d) PROVE PiecesInv'
    BY <1>5 DEF DiskFull
  <1>6. ASSUME NEW d \in Downloaders, Complete(d) PROVE PiecesInv'
    BY <1>6 DEF Complete, Accepted, Goto
  <1>7. ASSUME NEW d \in Downloaders, Fail(d) PROVE PiecesInv'
    <2>1. /\ data' = [data EXCEPT ![file[d]] = None] /\ attached' = attached \ At(file[d])
          /\ UNCHANGED <<file, pos, answer, damaged>> /\ file[d] \in Files
      BY <1>7 DEF Fail, Kept
    <2>2. \A f \in Files \ {file[d]} : /\ Refused(f) => Refused(f)'
                                     /\ \A k \in 1..Pieces : Owed(f, k) => Owed(f, k)'
      BY <2>1
    <2> QED
      BY <2>1, <2>2
  <1>8. ASSUME NEW d \in Downloaders, Store(d) PROVE PiecesInv'
    BY <1>8 DEF Store, Leaves, Goto
  <1>9. ASSUME NEW d \in Downloaders, Dismiss(d) PROVE PiecesInv'
    BY <1>9 DEF Dismiss, Leaves, Goto
  <1>10. ASSUME NEW d \in Downloaders, Killed(d) PROVE PiecesInv'
    BY <1>10 DEF Killed, Leaves, Goto
  <1>11. ASSUME NEW f \in Files, Removed(f) PROVE PiecesInv'
    BY <1>11 DEF Removed
  <1>12. CASE UNCHANGED vars
    BY <1>12
  <1> QED
    BY <1>1, <1>2, <1>3, <1>4, <1>5, <1>6, <1>7, <1>8, <1>9, <1>10, <1>11, <1>12 DEF Next, DownloaderStep

\* Company is noticed by both.
LEMMA StepShared == TypeOK /\ FileInv /\ SharedInv /\ [Next]_vars => SharedInv'
  <1> SUFFICES ASSUME TypeOK, FileInv, SharedInv, [Next]_vars PROVE SharedInv'
    OBVIOUS
  <1> USE DEF TypeOK, FileInv, SharedInv, Steps, Contents, Exists, At
  <1>1. ASSUME NEW d \in Downloaders, NEW f \in Files, Ask(d, f) PROVE SharedInv'
    BY <1>1 DEF Ask, AfterAsk, Goto
  <1>2. ASSUME NEW d \in Downloaders, OpenFails(d) PROVE SharedInv'
    BY <1>2 DEF OpenFails, Goto
  <1>3. ASSUME NEW d \in Downloaders, Open(d) PROVE SharedInv'
    BY <1>3 DEF Open, Goto
  <1>4. ASSUME NEW d \in Downloaders, Receive(d) PROVE SharedInv'
    BY <1>4, ReceiveFacts
  <1>5. ASSUME NEW d \in Downloaders, DiskFull(d) PROVE SharedInv'
    BY <1>5 DEF DiskFull
  <1>6. ASSUME NEW d \in Downloaders, Complete(d) PROVE SharedInv'
    BY <1>6 DEF Complete, Accepted, Goto
  <1>7. ASSUME NEW d \in Downloaders, Fail(d) PROVE SharedInv'
    BY <1>7 DEF Fail, Accepted, Kept, Goto
  <1>8. ASSUME NEW d \in Downloaders, Store(d) PROVE SharedInv'
    BY <1>8 DEF Store, Leaves, Goto
  <1>9. ASSUME NEW d \in Downloaders, Dismiss(d) PROVE SharedInv'
    BY <1>9 DEF Dismiss, Leaves, Goto
  <1>10. ASSUME NEW d \in Downloaders, Killed(d) PROVE SharedInv'
    BY <1>10 DEF Killed, Leaves, Goto
  <1>11. ASSUME NEW f \in Files, Removed(f) PROVE SharedInv'
    BY <1>11 DEF Removed
  <1>12. CASE UNCHANGED vars
    BY <1>12
  <1> QED
    BY <1>1, <1>2, <1>3, <1>4, <1>5, <1>6, <1>7, <1>8, <1>9, <1>10, <1>11, <1>12 DEF Next, DownloaderStep

\* A preview a row names goes only with the failure of another or by hand.
LEMMA StepLost == TypeOK /\ FileInv /\ SharedInv /\ LostInv /\ [Next]_vars => LostInv'
  <1> SUFFICES ASSUME TypeOK, FileInv, SharedInv, LostInv, [Next]_vars PROVE LostInv'
    OBVIOUS
  <1> USE DEF TypeOK, FileInv, SharedInv, LostInv, NamedPreviewExists, Steps, Contents, Exists, At
  <1>1. ASSUME NEW d \in Downloaders, NEW f \in Files, Ask(d, f) PROVE LostInv'
    BY <1>1 DEF Ask, AfterAsk, Goto
  <1>2. ASSUME NEW d \in Downloaders, OpenFails(d) PROVE LostInv'
    BY <1>2 DEF OpenFails, Goto
  <1>3. ASSUME NEW d \in Downloaders, Open(d) PROVE LostInv'
    BY <1>3 DEF Open, Goto
  <1>4. ASSUME NEW d \in Downloaders, Receive(d) PROVE LostInv'
    BY <1>4, ReceiveFacts
  <1>5. ASSUME NEW d \in Downloaders, DiskFull(d) PROVE LostInv'
    BY <1>5 DEF DiskFull
  <1>6. ASSUME NEW d \in Downloaders, Complete(d) PROVE LostInv'
    BY <1>6 DEF Complete, Accepted, Goto
  <1>7. ASSUME NEW d \in Downloaders, Fail(d) PROVE LostInv'
    BY <1>7 DEF Fail, Accepted, Kept, Goto
  <1>8. ASSUME NEW d \in Downloaders, Store(d) PROVE LostInv'
    BY <1>8 DEF Store, Leaves, Goto
  <1>9. ASSUME NEW d \in Downloaders, Dismiss(d) PROVE LostInv'
    BY <1>9 DEF Dismiss, Leaves, Goto
  <1>10. ASSUME NEW d \in Downloaders, Killed(d) PROVE LostInv'
    BY <1>10 DEF Killed, Leaves, Goto
  <1>11. ASSUME NEW f \in Files, Removed(f) PROVE LostInv'
    BY <1>11 DEF Removed
  <1>12. CASE UNCHANGED vars
    BY <1>12
  <1> QED
    BY <1>1, <1>2, <1>3, <1>4, <1>5, <1>6, <1>7, <1>8, <1>9, <1>10, <1>11, <1>12 DEF Next, DownloaderStep

IInv == TypeOK /\ FileInv /\ PiecesInv /\ SharedInv /\ LostInv

\* At the start there is no file, no row and no downloader at work.
LEMMA InitIInv == Init => IInv
  <1> SUFFICES ASSUME Init PROVE IInv
    OBVIOUS
  <1> USE DEF Init
  <1>1. row \in [Previews -> BOOLEAN \cup {None}]
    OBVIOUS
  <1>2. TypeOK
    BY <1>1 DEF TypeOK, Steps
  <1>3. FileInv /\ PiecesInv /\ SharedInv
    BY DEF FileInv, PiecesInv, SharedInv, Exists
  <1>4. LostInv
    BY DEF LostInv, NamedPreviewExists
  <1> QED
    BY <1>2, <1>3, <1>4 DEF IInv

\* Who is attached, what is owed, who has company and what is lost are kept
\* together: each part needs only the types, FileInv and, for LostInv, SharedInv.
THEOREM IInvHolds == Spec => []IInv
  <1>1. IInv /\ [Next]_vars => IInv'
    BY StepTypeOK, StepFile, StepPieces, StepShared, StepLost DEF IInv
  <1> QED
    BY InitIInv, <1>1, PTL DEF Spec

\* The types hold for every set of paths and downloaders and every file size.
THEOREM TypeCorrect == Spec => []TypeOK
  <1>1. IInv => TypeOK
    BY DEF IInv
  <1> QED
    BY IInvHolds, <1>1, PTL

\* A file nobody is receiving has every piece of the picture: a hole is owed by
\* somebody attached, a piece of a page is removed by who wrote it.
LEMMA IInvWhole == IInv => RestingFileIsWhole
  <1> SUFFICES ASSUME IInv, NEW f \in Files, Exists(f), Receiving(f) = {}, f \notin damaged
               PROVE  Whole(f)
    BY DEF RestingFileIsWhole
  <1>1. \A d \in attached : file[d] # f
    BY DEF IInv, TypeOK, FileInv, Receiving, At
  <1>2. \A k \in 1..Pieces : data[f][k] # "hole" /\ data[f][k] # "page"
    BY <1>1 DEF IInv, PiecesInv, Owed, Refused
  <1>3. data[f] \in Contents
    BY DEF IInv, TypeOK, Exists
  <1> QED
    BY <1>2, <1>3 DEF Whole, Contents

\* However many downloads of a path ran into each other, cut and removed the
\* file, what rests there is whole (curl_download writes in place and removes
\* on failure).
THEOREM RestingFilesAreWhole == Spec => []RestingFileIsWhole
  BY IInvHolds, IInvWhole, PTL

\* The path a caller gets (wallhaven_download, wallhaven_download_preview) is of
\* a whole file, unless it had company there or the file was damaged before.
THEOREM ReturnedFilesAreWhole == Spec => []ReturnedFileIsWhole
  <1>1. IInv => ReturnedFileIsWhole
    <2> SUFFICES ASSUME IInv, NEW d \in Downloaders, pc[d] = "returned", d \notin shared,
                        file[d] \notin damaged
                 PROVE  Whole(file[d])
      BY DEF ReturnedFileIsWhole
    <2>1. file[d] \in Files
      BY DEF IInv, TypeOK, FileInv
    <2>2. Exists(file[d]) /\ \A e \in Downloaders : file[e] = file[d] => e = d
      BY DEF IInv, SharedInv
    <2>3. Receiving(file[d]) = {}
      BY <2>2 DEF Receiving, At
    <2> QED
      BY <2>1, <2>2, <2>3, IInvWhole DEF RestingFileIsWhole
  <1> QED
    BY IInvHolds, <1>1, PTL

\* A preview a row names is there until somebody else's failure or the user
\* removes it: later searches neither lose it nor replace it
\* (cache_wallhaven_search).
THEOREM NamedPreviewsExist == Spec => []NamedPreviewExists
  <1>1. IInv => NamedPreviewExists
    BY DEF IInv, LostInv
  <1> QED
    BY IInvHolds, <1>1, PTL
=============================================================================
