# A specification of vibewallREzero

The repository is the NixOS configuration of two machines. Almost all of it is
declarative. The program with a life of its own is
`src/packages/vibewallREzero`: a wallpaper manager in C++ of about 5000 lines,
made of a daemon, a picker on a Wayland layer surface, and a command line, which
share a SQLite database. (Its own README calls it parked: it is kept in the tree
and not enabled.) This directory specifies that program, and the one desktop
script that shares its backends and files: TLA+ modules translated from the source, TLC configurations that check them on small instances, and
TLAPS proofs for every value of the constants.

Paths below are relative to `src/packages/vibewallREzero/src` unless they say
otherwise.

## 1. The system

| Part | State it keeps | Operations | Hard because |
|---|---|---|---|
| **daemon** `daemon/main.cpp` | `running`, `child_exit_pending`, `picker_pid`, the listening socket | open, close, toggle, restore, random, status; signal handlers; reaping | signals between any two statements, fork and exec, recycled pids, crash and restart |
| **command line** `cli/main.cpp` | none | `send_ipc`, `ensure_daemon`; apply, random, restore, scan, favorite, wallhaven in its own process | races to start the daemon, a socket path that several daemons remove, waits without a timeout |
| **applying** `core/wallpaper_apply.cpp` | settings `last.*`, the state file of the video wallpaper, the processes on the screen | `apply_wallpaper`, `apply_path`, `restore_last_wallpaper`, `apply_random_wallpaper` | runs in three programs at a time, no lock, killed in the middle, backends that outlive it |
| **picker: view** `picker/wayland_app.cpp`, `renderer.cpp` | `mode_`, `wallpapers_`, `selected_`, `scroll_offset_`, `hit_regions_` | keys, wheel, clicks, filters, resize, redraw | two computations of one geometry; clicks on an old drawing; boundaries |
| **picker: list** `wayland_app.cpp`, `core/filters.cpp` | `wallpapers_`, the filters, the query, `search_active_`, `wallhaven_mode_` | filter, search, star, apply, reload, redraw | a copy of tables others write; an index into a list that is replaced |
| **picker: web load** `wayland_app.cpp` | `wallhaven_*` flags, page, pending result, the worker thread | start, finish, next page, change of search | two threads, two flags and a join; loads that fail or are superseded |
| **web client** `core/wallhaven_client.cpp` | pictures, previews, table `wallhaven_cache` | `curl_download`, `wallhaven_download`, `wallhaven_download_preview`, `cache_wallhaven_search` | several threads and processes write one final path, cut and remove it; kills, full disks |
| **library** `core/scanner.cpp`, `thumbnail_cache.cpp`, `video_thumbnail.cpp`, `database.cpp` | table `wallpapers`, thumbnail files | scan, upsert, favourite, list | overlapping and killed scans, files written in place, copies of rows |
| **textures** `picker/renderer.cpp` | `textures_`, `texture_lru_` | `texture_for_path`, eviction, shutdown | two containers kept in step, a limit |
| **video wallpaper script** `src/home/programs/scripts/modules/desktop-helpers.nix` | its state file, the processes on the screen | start, restore, stop, suspend, battery guard | a second program on the same backends, a timer, the power supply |
| drawing, Wayland set-up | GL objects | | pure output, foreign libraries |
| colour groups, configuration, paths, model | none | pure functions | |
| vibeshell, other desktop scripts, NixOS modules | outside the program | | |

How they interact. A key binding runs the command line, which finds or starts
the daemon and sends it one line through a Unix socket. The daemon forks the
picker; the signal of its end makes the daemon restore the last wallpaper. The
picker, the daemon and the command line all link the applying code and each runs
it in its own process, on the one settings table. Scans of the command line fill
the table the picker lists. The picker's worker thread fills the web cache, as
does `vibewall wallhaven search` in a terminal. The video wallpaper script of the
desktop starts and kills mpvpaper and hyprpaper too and writes the state file
vibewall writes; a systemd timer runs it as a battery guard.

What makes each part correct, in words:

- the daemon never signals a process that is not its child, never loses sight of
  a picker or of a zombie, restores the wallpaper behind no living picker, and
  every command comes to an end;
- starting the daemon from several clients ends with one daemon, and with a
  socket path that leads to it; a command ends;
- an apply that nothing disturbs repairs whatever earlier ones have left torn;
- the selection and everything a click can hit is in the list, and an arrow key
  brings the selection back on the screen, unless it asks for the next web page;
- outside its cleanup the interface never waits for the worker of a load that goes
  on (it does download pictures itself), takes over only the last load, and skips
  no page;
- an indexed wallpaper has a thumbnail file, which only a killed, a failed or a
  second scan leaves torn, the favourite is what the user set last, and an
  undisturbed scan makes rows and thumbnails agree;
- the list is what the filters ask for, and a key acts on what the user has seen;
- a downloaded file that nobody is writing is whole, and a preview that a row
  names is there;
- a video never starts without hyprpaper having been stopped, and on battery it is
  suspended;
- no texture leaks, none is drawn after its deletion, a redraw reads no file.

`PROJECT.json` lists every component with its status, and every hazard at the
line where it bites, with the property that would catch it or the reason why
none does.

## 2. The modules

| Module | Models | Checked by | Proved in |
|---|---|---|---|
| `SinglePicker` | what the daemon promises, abstractly | as a property of `MCDaemon` | |
| `Daemon` | the daemon's loop, handlers and signals | `MCDaemon` | `DaemonProof` |
| `Startup` | clients, daemons, systemd and the socket path | `MCStartup` | `StartupProof` |
| `Apply` | overlapping, dying appliers | `MCApply` | `ApplyProof` |
| `Session` | `SinglePicker` composed with `Apply` | `MCSession` | `ApplyProof` |
| `VideoScript` | the script and its guard composed with `Apply` | `MCVideoScript` | `ApplyProof` |
| `Viewport` | selection, scrolling, drawing, clicking | `MCViewport`, `MCViewportWide` | `ViewportProof` |
| `Gallery` | what the picker lists and acts on | `MCGallery` | `PickerProof` |
| `WallhavenLoad` | the interface thread and the worker | `MCWallhaven` | `WallhavenProof` |
| `Downloads` | pictures and previews at their final paths | `MCDownloads` | `DownloadsProof` |
| `Library` | scans, thumbnails, rows, favourites | `MCLibrary` | `LibraryProof` |
| `TextureCache` | the cache of textures | `MCTextureCache` | `PickerProof` |
| `Subsequences` | what a list keeps when it is filtered | in the two above | `PickerProof` |

The modules meet at the operations they abstract. `Session` composes two of them
in full: every step of the daemon's promise is a step of `SinglePicker`, which
`Daemon` implements, joined with the step of `Apply` it starts or kills. The daemon that `Startup` brings up is the one `Daemon` runs;
`Reload` of `Viewport` is any change of the table that `Library` and
`WallhavenLoad` can make, and `Gallery` takes the protocol of the worker from
`WallhavenLoad` and leaves the geometry to `Viewport`. Definitions whose name starts with `Bug` are the
mistakes the properties are tried against: each stands in for the definition its
name ends in, and the property named in `PROJECT.json` then fails.

### Daemon

`proc` is the process table for the pids a picker can have; `pc` is where the
daemon's thread is. There is one action for each step of the loop (test the
flags, clear and reap, accept, read, answer) and of the handlers (fork, SIGTERM,
poll, SIGKILL, wait, pkill, reap, restore), because signals and exits fall
between any two of them. The environment: `Terminate` and `ChildEnds` are the
signal handlers; a forked child that has not yet run exec still has the daemon's
handlers and swallows SIGTERM (`forked`); a pid that was waited for can come
back as another program (`Becomes`); the daemon can crash in any step, and its
pickers then die with the control group or are orphans (`Supervised`).
A `restore` inside the daemon is one step here, and many in `Session`.

### Startup

Every daemon goes through `remove`, `bind`, `listen`, `serve`, `unlink`; each of
these is a system call that another daemon can come between. A picker inherits
the listening socket, so connecting to a dead daemon can succeed (`Accepts`) and
then nobody answers. Clients follow `ensure_daemon`: probe, start the service,
probe, start a detached daemon, probe, send. Time is left out, so any probe may
come before the daemon is ready. `late` and `lost` are history: a client has
waited for the service in vain; a daemon has ended since the last bind.

### Apply

Each applier walks through the statements of `apply_wallpaper`. Every setting it
writes is a transaction of its own, and `Keys` are the four that matter later.
`Restore` reads them one by one (`ReadType`, `ReadMonitor`) while others write. `Killed` can strike between
any two; a backend it was waiting for then runs on as an orphan. Left out: the
keys `last.name` and `last.used_at` and the hook `after_apply`, which nothing
reads back; helpers such as pkill end with their applier; the three pkills of
`stop_video_wallpaper` are one step. Two assumptions are about the environment: the
session starts hyprpaper again only while nothing is being applied (`HyprpaperStarts`;
the code does not keep a service from doing it between the stop and the backend,
`core/wallpaper_apply.cpp:75-78`), and what pkill has signalled is gone at once.
`VideoStartsWithoutHyprpaper` rests on both: what it shows is that every way to start
a video stops hyprpaper before.

`alone`, `solo` and `chosen` are history: who has run without company so far,
what was applied that way and is the last, and the same with only restores since.

### Session

`phase` and `shown` are the variables of `SinglePicker`, the rest those of `Apply`
with three appliers: the daemon, its picker, anybody else. A close kills the
picker in any step of an apply (`PickerKilled`), then restores (`FinishClose`);
the daemon serves nothing while it restores. `outside` is history: the command
line or an orphaned backend was at work beside that restore.

### VideoScript

A run of `asura-video-wallpaper` goes through its statements: look at the file and
the power supplies, write the state file, kill mpvpaper, kill hyprpaper, become
mpvpaper. `--stop`, `--suspend` and `--battery-guard` are runs of their own; the
timer starts one guard at a time. vibewall is `Apply` as it stands, in `Vibewall`.
Left out: notifications and the reload of noctalia's configuration. `MaxApplies`
bounds how many operations vibewall begins; the proofs do not need it.

### Viewport

A wallpaper is its index. `Cols` and `Rows` are the application's idea of the
geometry (`scroll_step`, `visible_rows_count`), `HexDrawnCols`, `HexDrawnRows`,
`Window` and `SliceCards` the renderer's. `hits` is what the last drawing left
for clicks, which a resize does not renew. The index of a slice can be negative in a
list of fewer than seven: such a region is left out, as a click on it selects nothing
(off the stage it closes the picker, like a click beside the cards). `ArrowKey` is
`move_selection`: it adjusts the offset (`MoveSelection`), or at the end of the web list
asks for the next page and returns before that (`MovePastEnd`, line 480). The arithmetic of the honeycomb is
in units of 10^-5 pixels, so that the factors of the code (0.52, 1.55, 1.34) are
exact integers. Mosaic mode, whose cards have the heights of their pictures, is
left out.

### Gallery

`list` is the picker's copy of the tables, made by `Reload` when a handler marks
its data dirty; `seen` is what the last frame showed. One action for each handler
that changes a filter, the query, the mode of the list, a star or the selection.
Scans and `vibewall favorite` write `rows` and `starred`, the worker and the
command line's search write `cached` and `previews`; each answer of the server is
one time of `cached_at`, so rows of one answer come in any order. That time is later than
those of all answers before, where the code stores the seconds of `unix_time_now`: two
answers in one second and a clock that is set back are not covered. History says
whether others have written since the list was made (`behind`) and what the last
load has stored (`fresh`). Left out: tags, which the picker never asks for, the
background picture, a configuration without Wallhaven.

### WallhavenLoad

`ui` is the interface thread (in its event loop, waiting in `join`, starting a
worker, finishing, cleaning up), `thread` the worker. The two atomic flags, the
result behind the mutex, the page counter and the cache table are variables. The
two places where the code's order of statements matters are separate steps: the
worker clears `loading` (`Publish`) before it sets `done` (`Signal`), and a load
started between the two drops the first result. History variables record which
pages of the current search were loaded, and whether the search was changed
without the page. The final call of `finish_wallhaven_load_if_ready` after the
loop is left out, as the counter is not used again.

### Downloads

A file is its pieces, each with what was written there last: nothing yet (a hole),
a piece of the picture, or of a page that will be refused. `Open` truncates what
others are writing; a failed download removes the path whoever has made the file;
a writer whose file was removed writes on into nothing (`attached`). A file that
exists is never asked for again. History says which files a kill or a full disk
has left short, who had company at its path, and what was lost behind a row.

### Library

A scanner walks the files in any order; for each it checks the thumbnail, makes
it (two steps, between which it can be killed and leaves `Partial`), reads its
colours and upserts the row. A thumbnail that two scans wrote at once is any of
the two or torn (`Written`), whichever ends last; a scan that begins to fill it cuts it
to nothing. `torn` is history: which thumbnails a killed or a failed scan has left half
way, or are filled by two. `view` is the picker's copy of the favourite flags.
The model assumes a signal that kills a scan also reaches its ffmpeg, and that
nobody clears the directory of thumbnails.

### TextureCache

`textures` and `lru` are the two containers of the code, `live` what exists in
the driver. `frame` and `last` are history: what this frame and the last one
have drawn.

### Subsequences

`Selected(s, P)` is what a list `s` has at the places `P`, in its order: the loop of
`list_wallpapers` that keeps the rows a filter passes, and `std::list::remove` in
`touch_texture`. Place `k` of the result is the place of rank `k` in `P`. The
`SelectSeq` of the standard library says the same by recursion over the list, about
which the prover knows nothing; of ranks it can be told all that matters.

## 3. Runs

| Run | Instance | Shows |
|---|---|---|
| `daemon` | 3 pids, 2 polls, no control group, pkill that matches | no recycled pid is signalled, no picker leaks, zombies are announced and go, restores are behind no living picker; commands end, SIGTERM is honoured; `SinglePicker` is implemented, its liveness too |
| `startup` | 2 clients, 2 daemons, a probe or two | one daemon unless a wait ran out; a reachable one until a daemon ends; a command ends |
| `apply` | 2 appliers, an image, an unindexed video that may be deleted | self-repair, the right backend, only wallpapers that worked are remembered, restores keep the choice |
| `session` | daemon, picker and command line, two at a time | the restore that ends a close runs alone |
| `video_script` | a user's run, the guard, one apply of vibewall, 2 videos | a start by itself repairs; hyprpaper is stopped before a video starts; on battery videos are suspended |
| `viewport_list` | 2 x 2 screen sizes, 3 modes, lists of 0, 4, 31 | selection and clicks in the list; an arrow key brings it back unless it asks for the next page |
| `viewport_wide` | 2560x1440 | **a counterexample**, see below |
| `gallery` | an image, a video, 2 entries of which one is listed, 2 answers | the list is as asked, actions hit what was seen, fresh results are shown |
| `wallhaven` | 3 pages, 3 searches, 2 entries | no wait for a worker that still loads, joins, right result, right page; loads and leaving end |
| `downloads` | a picture, a preview, 2 downloaders, 2 pieces | files at rest are whole, named previews exist |
| `library` | an image, a video, 2 scanners | thumbnail files, what tears them, favourites, settled rows |
| `textures` | 4 pictures, limit 2 | no leak, no use after deletion, no reading on redraw |

Why the bounds are enough. Three pids let a tracked picker, a child abandoned by
an interrupted `waitpid` and a stranger exist together; a fourth plays the part
of one of these. The code polls 30 times; only "again" and "the last" differ.
With two daemons one starts and removes the path while the other has it or ends;
a name is used again for the next start, and the proof of `OneDaemonUnlessLate` and
`ReachableUnlessLost` holds for any number. `ServiceTries = 2` has a first and a last
probe. Two appliers, scanners or downloaders are what a race needs; a third could
only disturb what is disturbed already, and the properties about an undisturbed
operation speak of one. Two pieces of a file are the part that was received and
the part that was not. One apply of vibewall can begin at any step of the script
and end at any later one. In `session` no file is unindexed or deleted: those
cases end an apply early, which the picker's death in any step covers. In
`gallery` a cap of one entry hides the other, two answers make an old and a new
one; the colour filter works as the type filter does and only its reset is
exercised. The screen sizes fall on both sides of each threshold of the code; 31 wallpapers
overflow every view, 4 are fewer than a slice needs. Three pages are needed for
a page counter that is right at the second page and wrong at the next. A cache of
two with four pictures evicts one of several candidates.
Where a theorem is listed in section 5, the bound does not matter.

Symmetry is used only in runs without liveness properties, over identifiers that no
definition tells apart.

**What `viewport_wide` found.** The comment in `wayland_app.cpp:485` says the
scroll offset is adjusted "to make sure selected_ is in the viewport". In the
honeycomb at 2560x1440 the application takes rows of seven (`scroll_step`, line
550) and the renderer draws rows of six (`renderer.cpp:970`), so an arrow key
can leave the selected card off the screen. `MoveKeepsSelectionDrawn` is the
property for screens on which the two agree, and holds of every arrow key but the
one that asks for the next page (below).

**Properties with a premise**, and why the code needs it:

- `ZombiesAreReaped`, `StopIsHonoured`: "if accept never waits for ever". A
  signal between the test of the flags and `accept` is seen only at the next
  connection. (`ZombieIsAnnounced` says without a premise that it is not lost.)
- `OneDaemonUnlessLate`: a service that needs more than three seconds gets a
  detached daemon beside it.
- `ReachableUnlessLost`: a daemon that ends removes the path whoever has bound
  it; after that the path leads nowhere until the next start.
- `ClientsEnd`: except for a client that waits on the socket of a dead daemon
  which a picker still holds; its `read` has no timeout.
- `NoPageIsSkipped`: while no search was changed without the page. `set_query`
  keeps the page of the last search, and a sort chosen while a load goes on is
  refused after the page has been reset.
- `MoveKeepsSelectionDrawn`: where application and renderer have the same rows, and
  not for the arrow key that asks for the next page of the web list.
  `move_selection` then selects the last card and returns (`wayland_app.cpp:480`)
  before it adjusts the offset: with the wheel turned to the top of 31 results, Down on
  the card before the last selects one that is not drawn. Of that key the property says
  only that it leaves a last card in view there, if the list and the mode stay.
- `InterfaceNeverWaitsForALoad`: about joining the worker, outside cleanup. The interface
  does wait for the network when it downloads the selected picture itself
  (`download_selected_wallhaven`, line 252), which the module leaves out.
- `IndexedHasThumbnail`: a file always; a whole one but while a scan fills it again, or
  when one that filled it was killed or failed half way, or two filled it at once.
  The code looks only whether the file exists, so it stays torn; a scan then indexes
  it with torn colours, which is why `ScanSettles` speaks of the thumbnail there is.
- `VideoStartsWithoutHyprpaper`: if the session starts hyprpaper only while nothing is
  applied, and pkill ends it at once.
- `SoloApplyHeals`, `SoloStartHeals`, `ScanSettles`: for operations that ran alone.
- `CloseRestoresAlone`: unless the command line applies beside the restore, or a
  backend of the killed picker still goes on.
- `RestingFileIsWhole`: but for files a killed downloader or a full disk has left.
  Such a file is trusted for ever, as the code looks only whether it exists.
- `NamedPreviewExists`: until somebody else's failure, or the user, removes it.
- `FreshResultsAreShown`: when nobody else has stored entries since, for answers that
  get different times.

## 4. Fairness

- `Daemon`: weak fairness of the daemon's own steps except in `accept`, where it
  may wait for ever; a process with a fatal signal dies; a forked child gets to
  exec or fails to. Nothing makes a user type or a picker exit, so
  `EveryCommandEnds` rests on the escalation to SIGKILL. Reads have a timeout of
  a second (`SO_RCVTIMEO`), which is why a silent client does not hold the loop.
- `Startup`: daemons and clients that can run do. No fairness makes systemd
  start a service or a daemon crash.
- `VideoScript`: the timer runs the guard again and again, and a run of it goes on.
  Nothing makes a user's run or vibewall go on. `VideoEndsOnBattery` says that
  each time there is a video on battery, there comes a time without one or on
  mains; a later start puts it back until the next run of the guard.
- `WallhavenLoad`: the event loop turns at least every 250 ms, and the worker's
  requests have timeouts, so each of its steps ends, with or without success.
- The other modules state no liveness and have no fairness.

## 5. Proofs

Each proof module has an inductive invariant (`IInv`, or one of its own for each
specification: `SInv`, `VInv`, `GalleryInv`, `CacheInv`), shown to hold initially
and to be kept by each action (`StepIInv`, or one lemma for each part). Every
invariant and every action property that a passing run checks is also a
theorem. The type invariants are proved too; the runs check the one of `Gallery`.

| Module | Theorems | What the invariant adds |
|---|---|---|
| `DaemonProof` | `TypeCorrect`, `SignalsOnlyOurChild`, `NoPickerLeaks`, `ZombiesAnnounced`, `RestoresBehindNoPicker`, `RefinesSinglePicker` | `CloseInv`: what `close_picker` knows of `picker_pid` at each of its steps (a poll has a child; after SIGKILL it is dying or dead; before the restore there is none). `DeadInv`: a dead daemon has no children. Without them neither the leak nor the recycled pid can be excluded in a close that is interrupted. |
| `ViewportProof` | `TypeCorrect`, `SelectionStaysInList`, `MovesKeepSelectionDrawn` | the parts of the property itself; the work is in lemmas about the geometry (columns and rows are small positive numbers, a window of a list is in the list, an adjusted offset has the row of the selection in view, and a key past the end leaves the view as it is). |
| `WallhavenProof` | `TypeCorrect`, `InterfaceStaysResponsive`, `WorkersAreJoined`, `FinishIsOfTheLastLoad`, `PagesAreNotSkipped`, `PagesCountNewResults` | `FlagsInv`: how flags and threads go together (loading is up exactly while the worker is busy). `PagesInv`: what a pending result has loaded. `CountInv`: what the worker's count says of the rows added since. |
| `LibraryProof` | `TypeCorrect`, `FavoritesAreKept`, `RowsHaveThumbnails`, `ScansSettle` | `StepInv`: what a scan holds at each step. `ThumbInv`, `WholeInv`: a row comes after its thumbnail, and one that is not whole, indexed or not, is being filled or known to be torn. `ChoiceInv`: a file without a row has never been a favourite. `AloneInv`: what a scan that is alone has settled so far. |
| `StartupProof` | `TypeCorrect`, `OneDaemon`, `PathLeadsToADaemon` | `LateInv`: a client comes to spawn a daemon only when its probes of the service are used up. `UnitInv`: until then every daemon is the service's. `PathInv`: until a daemon ends, the path names one that has bound it, or one is about to. |
| `ApplyProof` (`Apply`) | `TypeCorrect`, `IndexedFilesGetTheirBackend`, `OnlyWorkingFilesAreRemembered`, `SoloApplyAlwaysHeals`, `RestoresAlwaysKeepTheChoice` | `KindInv`: from the look at the row on, the type of a job is the row's, also in an orphaned backend. `WorkedInv`: who writes settings has a path that worked. `AloneInv`: what an applier without company has cleared, shown and written at each step. `ChoiceInv`: everybody at work has read the chosen settings. |
| `DownloadsProof` | `TypeCorrect`, `RestingFilesAreWhole`, `ReturnedFilesAreWhole`, `NamedPreviewsExist` | `PiecesInv`: a hole in a file is owed by a downloader attached to it, and a piece of a page belongs to one that will remove it. `SharedInv`: who had no company finds its file. `LostInv`: who finds none knows that others removed it. |
| `ApplyProof` (`VideoScript`) | `SoloStartsHeal`, `VideosStartWithoutHyprpaper` | `VibewallDown`, `ScriptDown`: hyprpaper is down whenever any applier, orphan or run of the script is about to start a video. `ApartInv`: what a run without company has done so far. The types of `Apply` are taken over. |
| `ApplyProof` (`Session`) | `SessionImplementsApply`, `SessionImplementsSinglePicker`, `ClosesRestoreAlone`, `SessionAppliesHeal` | `PhaseInv`, `PickerInv`, `DaemonInv`, `RestoreInv`: which phase of the daemon goes with which operation. Only a shown picker applies, the daemon is at an operation only while it restores or serves a command, and a restore that nobody from outside has joined is `alone`. |
| `PickerProof` (`Gallery`) | `GalleryTypeCorrect`, `ListsAreAsAsked`, `SeenIsActedOn`, `FreshResultsAreListed` | `LoadInv`: until the worker has stored its last entry, what it has stored is newer than everything else in the cache, when nobody else stores. `FreshInv`: so is the last load afterwards, and it is no more than a page. `SearchInv`: who stores has the time of an answer. |
| `PickerProof` (`TextureCache`) | `NothingEverLeaks`, `DrawnTexturesExist`, `RedrawsLoadNothing` | `StoreInv`: map, list and driver agree, no two paths have one texture. `RecencyInv`: the pictures of this frame, and of the last two, are ahead of all others in the list, and all resident unless they are more than the limit. |

The argument of `FreshResultsAreListed`: the list is the first `Cap` entries of some
order by `cached_at`. If an entry of the last load came behind place `Cap`, all places
before it would hold entries that are not older, hence entries of that load too
(`FreshInv`); then the load would have more than `Cap` entries, and it has at most a
page (`NewestAreListed`). That of `RedrawsLoadNothing`: an eviction takes the last
path of a list of `Limit + 1`; were it a picture of the two frames, everything
ahead of it would be one as well, and these would be more than the limit
(`LoadKeepsFrame`). `TakenFacts` shows on the way that the loop of
`evict_textures_if_needed` never runs twice. `ListsAreAsAsked` rests on what a
filtered list is (`LocalListFacts`, `WebListFacts`) and on one fact of its own: without
the filter of favourites, setting a star in the copy makes the list that would be
read again from the table (`StarFacts`).

`RefinesSinglePicker` shows the safety part of the refinement: initial states map
to initial states, every step to a step or a stutter. `SessionImplementsApply` and
`SessionImplementsSinglePicker` show the same of the composition, so that what is
proved of its parts holds in it: `SessionAppliesHeal` with `ClosesRestoreAlone` says
that a close which nobody from outside disturbs leaves screen, settings and state
file in agreement. The assumptions are those declared in the modules: the `None`
values are outside the sets they are added to, sets that are counted are finite,
bounds are positive, a page of results is no longer than the list that shows it
(the server answers with 24, the picker lists 120: `FreshResultsAreListed` needs that). The theorems of the library used
are facts about finite cardinalities, injections and surjections, and about the
length, the elements and the parts of a sequence.

Not proved, only model-checked: everything about liveness and fairness, which is
beyond the prover: `EveryCommandEnds`, `ZombiesAreReaped`, `StopIsHonoured`,
`ClientsEnd`, `EveryLoadEnds`, `QuitEnds`, `VideoEndsOnBattery`, and the liveness
part of `ImplementsSinglePicker`.

## 6. Not modelled, and why

- Drawing, Wayland and EGL: output and foreign libraries. The regions and the
  numbers of columns and rows, which the handlers depend on, are in `Viewport`.
- Colour groups: floating-point arithmetic from a colour to a hue, without state;
  a group is a set of wallpapers in `Gallery`. Tags: a table of their own that the
  command line writes; only a filter that no caller sets reads it.
- Configuration: read once at the start. The race of two first starts, one of
  which reads the file while the other writes it, is listed as a hazard.
- Mosaic mode; the status line; the background; parsing and printing.
- SIGPIPE in the daemon when a client hangs up before its answer: the daemon ends,
  which is the `Crash` of `Daemon` and `Startup`.
- vibeshell (QML), the other desktop scripts, the NixOS modules: they share no
  state with vibewall.

## 7. Plan

The order was: the daemon and what it promises first, since every key press goes through it;
then what it runs (`Apply`), what it forks (`Viewport`, `WallhavenLoad`), what they
show (`Library`, `TextureCache`), and how it is found (`Startup`); then the parts
that meet others (`Gallery`, `Downloads`), the compositions (`Session`,
`VideoScript`), the proofs about `Apply` and `Downloads`, and those about `Session`,
`Gallery` and `TextureCache`. What is left:

1. Theorems that join modules: what `WallhavenLoad` promises of the worker against
   what `Gallery` assumes of it; `Daemon` under `Session` in one specification.
2. What the invariants say beyond the properties that are listed, stated as theorems
   of their own (one eviction for each load; a settings table that restores keep).
3. Mosaic mode in `Viewport`, with heights of cards as a bounded choice.
