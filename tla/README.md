# A formal model of the Hildon desktop stack

This directory holds TLA+ specifications of the programs in `src/`: the Maemo/Hildon
desktop of 2008 with its theme engine (`sapwood`), window manager
(`matchbox-window-manager`), desktop shell (`hildon-desktop`) and widget library
(`libhildon1`). TLC checks them on small instances; the TLA+ proof system proves their
central invariants for all values of the constants.

## Inventory

| Component | State it keeps | Operations | Interacts with |
|---|---|---|---|
| sapwood server (`sapwood/server`) | GCache of loaded images, a cleanup table per connection, one receive buffer | accept, open, close, hang-up | theme engine (Unix socket), X server |
| sapwood client side (`sapwood/engine/sapwood-pixmap.c`, `sapwood-client.c`) | one socket per process, pixmaps | get for file, render, free | server, X server |
| sapwood theme data (`theme-pixbuf.c`, `sapwood-rc-style.c`) | rc styles, image lists, canonical pixbufs | parse, merge, finalize, paint | GTK+ (callbacks), client side |
| matchbox stack (`matchbox-window-manager/src/stack.c`) | doubly linked list, top, bottom, count | insert, remove, move, walk | every handler of the window manager |
| matchbox clients (`wm.c`, `*_client.c`) | client records, focus, transients, modality, desktop mode | map, unmap, destroy, activate, iconize, cycle | X server (events), stack |
| libhildonwm (`hildon-desktop/libhildonwm`) | applications, windows, hibernation state | X property events, memory signals | window manager, task navigator, D-Bus |
| notification manager (`libhildondesktop/hildon-desktop-notification-manager.c`) | list of notifications with ids and timeouts, database | notify, close, time out, load | D-Bus, shell |
| system notes (`src/hd-desktop.c`) | queue of dialogs | notification, response, close | notification manager |
| task navigator (`src/hd-switcher-menu.c`, `src/hn-app-switcher.c`) | menu items, blinking, detached button; buttons of applications | list signals, timeouts | notification manager, libhildonwm |
| home area (`hildon-home-area.c`, `hildon-desktop-home-item.c`) | items, rectangles, stacking, layout | stylus, edit, save, load | plugins, files |
| shell containers (`src/hd-desktop.c`, `policies/tasknavigator-policy.c`) | plugins of each container, monitors, ignore flags | load, sync, select, save | files, dialogs, plugins |
| popups (`libhildondesktop/hildon-desktop-popup-window.c`, `-popup-menu.c`) | grabs and panes; items, selection, scrolling | open, close, pointer, keys, add, remove, scroll | X server, GTK+ (events, layout), task navigator |
| home window and background (`src/hd-home-window.c`, `src/hd-home-background*.c`) | background, picture, cancel note, timeout | dialog, calls, replies | background manager (D-Bus), files |
| background manager | none between calls | render a background | home window (D-Bus) |
| libhildon programs and windows (`libhildon1/src/hildon-program.c`, `hildon-window.c`) | windows, topmost flags, common toolbar, hibernation | X property events, add, remove | window manager, GTK+ |
| libhildon banners, editors, calendar, find toolbar, trail | texts, ranges, timers, lists | keys, stylus, focus, timeouts | GTK+, applications |
| theme cacher, theme tools, scripts | none that interacts | sequential | files |

What is hard in these programs, and what makes each part correct:

- **sapwood**: three kinds of processes talk over two channels (socket, X connection)
  without a common order; ids are addresses that are used again; images are reference
  counted at four levels (rc style list, `ThemeImage`, `ThemePixbuf`, `CacheNode`, GCache).
  Correct means: a pixmap exists as long as somebody paints with it, no longer than
  somebody uses it, and every request is answered.
- **matchbox**: all events of the X server end in a few pointers between client records.
  Correct means: the stack is a list, no pointer dangles, counters match what they count,
  dialogs stay above what they belong to, and something sensible has the focus.
- **the desktop**: properties, signals, monitors, callbacks and timeouts that arrive after
  what they refer to has gone or was replaced; files and a database that must say after a
  crash what was on the screen. Correct means: what is listed is what is there, what is
  saved is what is shown, what was promised to a client holds until somebody takes it back.
- **the widgets**: values at their limits, intermediate texts, timers that outlive what
  started them. Correct means: at rest a widget holds a legal value and shows it.

`PROJECT.json` lists every component and every hazard with its line.

## Modules

| Module | Models |
|---|---|
| `SapwoodServer` | the server's cache and cleanup tables for arbitrary clients (`server/sapwood-server.c`, `server/cache-node.c`) |
| `SharedImages` | what the server promises: an image is resident exactly while somebody uses it |
| `Sapwood` | clients, sockets, server and X server composed; implements `SharedImages` |
| `SapwoodStream` | how the byte streams are cut into requests in the shared buffer |
| `SapwoodTheme` | images, pixbufs and styles inside one process |
| `StackOrder` | the stacking order as a sequence |
| `MatchboxStack` | the pointers of `stack.c` against that order |
| `MatchboxWm` | the clients of the window manager: every handler that changes stack, focus or visibility |
| `HdWm` | applications, windows and hibernation in libhildonwm, and the buttons of the switcher |
| `OpenNotifications` | what the notification manager promises: an abstract list of open notifications |
| `NotificationManager` | the list store, ids, timeouts and the database; implements `OpenNotifications` |
| `SystemNotes` | the queue of system notification dialogs |
| `SwitcherMenu` | the menu of the application switcher, its blinking and its detached button |
| `HomeArea` | applets of the home view: placing, stacking, gestures, saving |
| `PluginContainer` | plugins of a container, its files, monitors and the task navigator policy |
| `PopupWindow` | the grabs of popup windows and their panes |
| `PopupMenu` | the menus in them: items, selection, scrolling |
| `HomeBackground` | the background dialog, the background manager, the cache and the cancel note |
| `HildonProgram` | windows, topmost tracking, common toolbar and hibernation of an application |
| `HildonBanner` | banners and their timers |
| `HildonNumberEditor`, `HildonRangeEditor`, `HildonTimeEditor`, `HildonDateEditor` | the editors |
| `HildonCalendar` | the calendar and the date of its popup |
| `HildonFindToolbar` | the search history and its filter |
| `HildonBreadCrumbTrail` | the bread crumb trail |
| `EntryTexts`, `CalendarDays`, `Lists`, `NullPointer` | shared by them: texts that are no numbers, a small calendar, lists whose elements are there once, `None` |
| `..._proofs` | the theorems, see [Proofs](#proofs) |
| `MC...` | model values for TLC |

Each module has one invariant, a conjunction of named parts: the type invariant and what
could go wrong (`StreamInv`, `SwitcherInv`, ...). The text below names the parts. Action
properties and liveness stand beside it.

### SapwoodServer

`process_buffer` runs inside one dispatch of the GLib main loop, so each request is one
action: `OpenAs`, `OpenFails`, `CloseId`, `CloseUnknown`; `AcceptClient` is
`main_sock_callback`, and `ClientRemoved` is `client_sock_removed` with the destroy
function `cleanup_pixmap_destroy` of every node. `refs` is the reference count GCache
keeps per entry. GLib's GCache is external: `g_cache_insert` of a present key only takes
a reference, `g_cache_remove` drops one and destroys the value with the last.
`Ids` are addresses; a new response may get any address that no live one has, which
includes the one just freed.

Clients here send anything well formed in any order. The server survives it
(`OpenResponsesCached`), but it does not stay exact: `server_leak` shows an entry that no
connection has open and no request can release any more (`UnusedImagesReleased`).

### Sapwood

The clients of the engine open each file once at a time. `RequestOpen`, `TakeReply`,
`Paint` and `CloseFile` are `theme_pixbuf_get_pixmap`, `sapwood_pixmap_get_for_file`,
the rendering and `sapwood_pixmap_free`. `Exit` ends a process at any point. The X server
runs the requests of one connection in order and those of two in any order: `XPaint` and
`XFree` let painting and freeing lag behind, and `gdk_flush` (server) and
`gdk_display_sync` (client) are the points where somebody waits for it.

With these clients the server is exact: `SharesImages` says that the composition
implements `SharedImages` with `users` mapped to the connections that hold a node and
`resident` to the entries of the cache. `HandlesLive` and `ClosesKnown` show that reused
addresses do no harm, `NoBadPixmap` and `RepliesUsable` that the two synchronisation
points suffice, each in its own direction.

### SapwoodStream

`buf` and `buflen` of `client_sock_callback` are static. `ReadRequests`, `ProcessBuffer`
and `CallbackReturns` are the three parts of the callback; `serving` is the local state of
the callback that runs, during which no other one does. Bytes carry the request they
belong to, so that the properties can tell where a request starts. With `MaxUnread` not
above `BufSize` every read returns whole requests and everything works (`components`). Once
a client has more unread than fits (a row of closes, which are not answered), the last
request is split and the loop never ends (`stream_split`).

### SapwoodTheme

A step per iteration of the loop in `sapwood_rc_style_parse`, and `Idle` keeps everything
else out while a block is parsed, as GTK+ does. `UnrefImages` is `theme_image_unref` over
a list with the ThemePixbufs each freed image gives up. `RefModulus` is the size of the
bit field `refcnt`, and the assertion in `theme_pixbuf_ref` is the outcome `asserted`.
`ShadowAfterImage` says whether gtkrc files have a `shadowcolor` line behind an image
block: without it the reference counts are exact (`components`), with it an image is freed
twice (`theme_shadow`).

### StackOrder, MatchboxStack

`links` is the record of the pointers `stack.c` assigns, by the same cases; `order`
records the order each operation means (`StackOrder`). `LinksMatchOrder`, in `StackInv`, is the claim that
the first always describes the second. The operations are the primitives every handler of
the window manager uses: `stack_prepend_bottom`, `stack_append_top`, `stack_remove`,
`stack_move_above_client` (also with a null pointer) and `stack_move_top`.

### MatchboxWm

The window manager handles one X event after the other without returning to the loop in
between, so an event is one action, and the hard part is inside: a handler calls methods
of clients, which call `wm_activate_client`, which calls methods of other clients. The
state is one record `wm` (fields of `Wm`, the fields `trans` and `next_focused_client` of
all clients as functions, flags as sets of clients), and every C function is an operator
from the state before to the state after a call: `MainShow`, `DialogShow`, `Activate`,
`MainUnmap`, `DialogIconize`, `Forget` (`base_client_destroy`) and so on. `Show`,
`Iconize` and `Destroy` are the method pointers. `MapNew`, `MapAgain`, `RemoveClient`,
`ChangeState`, `NextClient`, `PrevClient`, `ToggleDesktop`, `NetActiveWindow`,
`NetWmStateAbove`, `ToggleFullscreen`, `TransientForChange` and `ButtonPress` are the
events that matter for this state.

- The loops "`stack_enumerate` (w, p) `if (p->trans == c) p->iconize (p)`" walk the list
  their body changes. A call of such a loop (`Calls`) is what is left of it from client `p`
  on; one `Turn` calls the method of `p` and then the rest of the loop, from whatever is above
  `p` after that. `Loops[n]` are all loops with at most `n` turns and calls in each other, a
  recursive function, and `Show`, `Iconize`, `Activate` and so on get the loops they may run
  as an argument (`call`); `WmNext` gives the handlers `Loop`, the longest ones. A handler that needs more than `MaxCalls` turns inside each other
  sets `hung`: in the runs, with 20, these are the ones that never end (with 30 TLC finds the
  same states). The theorems hold for any `MaxCalls`.
- Loops that collect clients first and move them afterwards are `Regroup` and
  `TransientsToTop`: one sequence operation for the whole loop.
- `Type` says what the window type hint (or, without one, `WM_TRANSIENT_FOR`) makes of a
  window. Group leaders are windows of `Clients` or `None` (no group).
- `XSetInputFocus` may fail, but the error event arrives after `misc_untrap_xerrors` has
  restored the handler, so `focused_client` is always set.
- Once a pointer dangles or a handler hangs there is no defined next state: the model
  stops there (`Intact`). The passing properties hold for the states in which it is intact.
- Clicks use the dialog strategies that raise dialogs (any but `static`).

What holds is the order on the screen (`VisibleOnTop`, `DialogsAbove`, `PanelsPlaced`,
`RootDialogsOnTop`), that `stack_top_app` is good whenever there is an app
(`TopIsMapped`, `SomethingVisible`), and where one gets when an app goes away
(`BackToDesktop`). `FocusKept` is about who has the focus and which dialogs come back. What
does not hold is mostly about focus and about walks over a list that moves: see the
findings.

Left out of it: configure requests and geometry, toolbars and the input window, the panel
in the titlebar, the task menu, the modal blocker windows, pings, composite painting and
properties set for other programs. With a full-screen app visible, panels and toolbars are
below it or not as their own history has it; no property speaks about that.

### HdWm

The library learns about windows from three root properties and reads them when it gets to
the event: `Publish` is the window manager writing them, `HandleEvent` one PropertyNotify
with everything the handler does, so that what is read can be newer than what is announced.
`MapWindow`, `Raise`, `Unmap` are the window manager's and the applications' part.
`BackgroundKill` is `hd_wm_memory_bgkill` with the walk over the entries, `Terminate` the end
of a process, `CloseHibernating` the user closing an entry that only hibernates, `TopItem`
the user choosing one, `RefreshButtons` the idle callback of the switcher. Reading the list
first takes the windows that are gone out of the hash, in whatever order the hash has
(`StealAll`), then adds the new ones (`ListAll`); the current window is looked up only if it
is another one than before (`ProcessCurrentApp`). Objects have addresses in `Objs` which are
used again once freed. `SwitcherComplete`: every window is
listed once. `ActiveLive`: the active pointers never point to a freed object. `ActiveInStep`:
without events under way the library's active window is the window manager's.
`ButtonsInStep`: buttons that point to a freed entry are always about to be refreshed.
`HibernatedKept`: the objects of a hibernating application go only when the user closes one of
them, or when a window that came back has gone again.

Assumed: there is memory for an object of each window in each of the two hashes; an X id is
not given to a new window while the library still knows the old one;
only processes that were sent SIGTERM end on their own. The low-memory dialog (339-492),
start-up banners, icons and the `lowmem` flags, which do not influence this control, are left
out.

### NotificationManager, OpenNotifications

A D-Bus call or a timeout is one action: `NotifyNew`, `NotifyChange`, `CloseNotification`,
`CloseAll`, `Timeout`; `ManagerRestart` ends the process at any point between them and loads
the database. `IsNextId` is the search for the next id: it passes over the ids in the
database, and starts again at 0 after `MaxId` (`G_MAXUINT`). It does not look at the rows, so
once the ids have come round a new notification can get the id of an open one that is not
persistent, or of a timeout under way; the list then has two rows of one id, of which every
search finds the first. `rows` therefore keeps a sequence per id, and the history variables
`given` and `clashed` tell which ids have been used since the start and whether one was given
to two. `NewIdsFree`: that happens only after every id has been used. `KeptStored` relates the
three tables with the rows, whatever wraps; `TextsMatch` does so for the texts, and `TimersOwn`
says that a timeout left over (sources are never removed) closes nothing that did not ask for
it, both as long as no id was given to two. `KeepsPromise` is the refinement of
`OpenNotifications`: a notification has the text it was last given until it is closed, and
persistent ones survive a restart; the promise can be lost only when all ids are used, and
holds again after the next start. Ids above `G_MAXINT` are written with `%d` and read back
with `strtod`; that conversion is left out, as is a database that holds every id.

### SystemNotes

`Received` is the signal handler with the decision between banner and dialog, `Response` and
`Closed` are the dialog's destruction with the walk to the next dialog in the queue. Dialogs
closed while they wait stay in the queue as pointers until the walk meets them.
`NoDialogStuck`: while a dialog waits, an earlier one is on the screen. `DialogsInTurn`: they
come in order. `OneDialog`: one at a time as long as no waiting one was closed.

### SwitcherMenu

The list of notifications is represented by what the menu reads of it: category and
acknowledgement (`open`) by id. `hd_switcher_menu_init` has the manager's rows sorted by id, the
newest first: the button blinks for the newest one nobody has acknowledged (`Newest`), and rows
are closed in that order, those of a group in the opposite one (`CloseIds`). (Rows that a restart
of the desktop loads from the database are not modelled.) An application has one window here,
with its urgency hint (`urgent`), the flag its button in the switcher sets when it is pressed
while it blinks (`ignored`), and whether it hibernates (`asleep`). Its actions are the handlers
of the list's signals, of windows that change (`WindowChanged`: the branches of
`hd_switcher_menu_changed_info_cb` in their order, the buttons' handler of the same signal before
or behind it), of the refresh without a window, of the display, of the timeout that puts the
detached button back, and of the user. `ItemsOpen`, `UngroupedListed`: what the menu lists is open, and what is
open is listed or stands behind the item of its group. `ItemsBlink`, `BlinkingHasPixbuf`: what
blinks and with which icon. `CallsBlink`: the item of an application that wants attention blinks
while the display is on, also when it asked while the display was off or while it slept.
`UrgentHere`: `last_urgent_info`, a plain pointer, is a window that is there. `DetachedReturns`: a button out of the panel has a timeout that
brings it back.

### HomeArea

`home` is the area with rectangles, stack, layout and the configuration file; `stylus` the
gesture under way on one item (`PressItem`, `PressHandle`, `MotionNotify`, `DoubleClick`,
`ClickTimeout`, `Release`). `AddApplet` places an applet where its layout or a free rectangle
says; `Allocate` is GTK's later size allocation; `SaveTimeout` writes the file; `RestartHome`
starts again from whatever the file is, also after a crash in the middle of writing (`Torn`).
`Background` and `ScreenOff` are what items are told. `PlacesSaved`: the file says
where applets are, or is about to, but for the one that is dragged and those of `early`. `StackByIndex`: they lie in the order saved but for those raised since.
`PressesPaired`, `PausedTogether`: an item is told of a release for each press, and all are
told the same of the screen. `early` remembers for which applets the last save came too early:
those in the middle of a drag, and remembered ones that were not there. `PlacedFree`: a new applet covers no other as long as there is
room, with the exception below.

### PluginContainer

`shell` is one container of `HDDesktop` of one of three kinds: the home area (unordered, loads
new plugins), an ordered panel, the task navigator with its policy. `HandleMonitor` handles the
oldest file event with all it calls (`hd_desktop_sync_container`, loads, saves and the ignore
flag); `WriteUserConf`, `WriteSystemConf`, `Install`, `Uninstall` are other programs;
`OpenDialog`, `SelectPlugins`, `CancelDialog` the dialog, during which the main loop runs on.
`NoPluginTwice` and `ContainerInStep`: once all events are handled, the container holds what
the file names and what can be loaded, or wrote the file itself.

### PopupWindow

`popup` is a popup window: `open`, `haveGrab` and `withGrab` are the fields `open`, `have_xgrab`
and `pane_with_grab`; `grabs` is the list of grabs of GTK+ and `xgrab` the window with the
pointer and the keyboard. `GrabMovesTo` is what every handler of the pointer does, with the
windows it is called for; `JumpToPane` is what keys and lost items do, `PopdownAll` closes.
`OneGrab`: while it is open one window has the grab, the one that the fields name.
`ClosedFree`: closing gives up everything. `GrabSeen`: the window with the pointer is visible.

### PopupMenu

`popupMenu` holds the list (`items`), what is selected, and the adjustment of the viewport
(`value`, `upper`, `page`); `pending` says that GTK+ has yet to place the items (`Layout`), and
`top` where they are. `ParentSize` follows every change of the list. `ScrollStart`,
`ScrollInitialStep`, `ScrollTimeout` and `ScrollStop` are a button and its timer.
`SelectedListed`: what is selected is in the menu, and shown so. `ScrolledInRange`: the viewport
shows items, whatever timers are left over. `ScrollEnds`: nothing scrolls that no button asks
for, until the menu is moved or grows under a timer (`crossed`): a button that reaches its
limit becomes insensitive, does not report its release, and leaves its timer for up to 250 ms. A
selection or new item in this time is scrolled on; a press starts another timer and forgets
the first (`strays`), which runs on beside it (`StrayInitialStep`, `StrayTimeout`) until it meets
an end. The next press of a menu at rest sets `crossed` back.

### HomeBackground

`chooser` is the dialog with the choice handed to the manager; `RespondPreview`, `RespondOk`,
`RespondCancel` are its responses, `ManagerServes` is what the manager does in a call (write
the cache file, answer), `AsyncReply` its answer handled. `LoadingTimeout` and
`CancelNoteResponse` are the note that offers to stop, `StartHomeWindow` a restart from the
saved file. `CacheUsable`: what is saved names a cache file that exists, and what is shown can
be restored. `CacheOwn`: a cache file that is named is at worst lost, never half written or that of
another image. `PictureOfBackground`, `SavedIsShown`: the picture is that of the background, and
the saved one is shown once nothing is under way. `NoteHasReason`: a timeout or note belongs
to a call someone waits for.

The manager serves calls in order and quits after each ("failed" also covers its
disappearance). Names of cache files are random in the code and taken to be fresh. The serving
is one step, since a clean-up of the cache before or after it gives the same results. Users may
open the dialog and respond while an answer is awaited, and each save may fail. Three history
variables say what is lost by that: `crossed` (the user went on, since the start: only
`CacheOwn` and `PictureOfBackground` can be relied on until the next one), `unsaved` (the last save
failed: the cache file of the saved background may be gone) and `undone` (what was asked for
last did not come about). `hd_home_background_apply` (synchronous) has no caller.

### HildonProgram

As in HdWm, filters read `_MB_CURRENT_APP_WINDOW` when they get to the event (`HandleNotify`),
not when it changed (`SetActive`, `DialogDies`). A window has its own filter until it belongs
to the program. `NewWindow`, `Realize`, `Unrealize`, `DestroyWindow`, `AddWindowToProgram`,
`RemoveWindow`, `SetCommonToolbar`, `SetCanHibernate` are the calls of the application.
`TrackedOnce`: each window is tracked by exactly one filter. `TopmostInStep`: without events
under way exactly the active window counts as topmost. `HibernationKnown`, `ToolbarAtHome`,
`ToolbarOnTop`: the property is on all windows; the toolbar is in one window at most, the topmost
one.

### HildonBanner

`ShowInformation` reuses the timed banner of its owner, `ShowProgress` makes one of its own,
`MapEvent` starts the timer, `Clock` is a unit of time, `BannerTimeout`, `BannerClicked`,
`CloseBanner`, `OwnerDestroyed` the ends. `OneTimedBanner`: one per owner, the registered one.
`TimedBannersEnd`: a timed banner on the screen has a timer running or is about to be mapped.
`FullTime`: no message ends before its period is over.

### Editors and calendar

The **number editor** has an entry with intermediate texts, two buttons with a repeat timer and
the application's range: `InRangeAtRest` (left alone it holds a number of its range),
`StepsSaturate`, `RepeatsWhileHeld`. The **range editor** checks each end against what the other
entry shows: `RangeAtRest`, `RangeTaken` (what it makes of any range it is given: a start above the end
shown before is lost), `LimitsSpare`. A text such as `12a` stands for what `atoi` makes of it
(`JunkNumber`). The **time editor** has fields for hours
and minutes on 24 and 12 hour clocks and durations, and the AM/PM button, which duration mode brings back
whatever the clock is: `ShownInStep`, `HalvesInStep`,
`DurationInRange`. The **date editor** validates a field that is full or left, skips the check
after Escape: `DateShown`, `YearsTypedInLimits`, `YearFollows`. The **calendar** has the
selected day, the focused cell, keys that cross months and the stylus: `SelectedExists`,
`FocusOnSelected`, `LeftRightReturns`, `ToldPressed`, `PopupShowsGiven`. The stylus is at an
index `row * WeekDays + column` of the arrays of kinds and days, where row and column are -1
out of the grid: `DayAt` and `KindsAt` are the words the code then reads, which by the layout of
`struct _HildonCalendar` are the last cell of the row before, the last kinds of the grid
(for `day`), or the selected day, the year, the month and pointers (for `day_month`). What the
keys read above and below the grid only decides whether they stop, a choice of `VerticalKey`.
`ToldPressed` is about a press on a day of the month shown that is released on a cell, with
month and year as at the press; the arrows of the year, keys and the application may move them
meanwhile, the stylus may go anywhere. Double clicks, which only announce, are left out. `CalendarDays` is a calendar
with short months but the same irregularities: a short month that depends on leap years.

### HildonFindToolbar, HildonBreadCrumbTrail

`SearchFor` finds, removes and appends a text in the history, in a list of the toolbar or the
application's; the filter marks rows. `HistoryDistinct`, `LatestShown`. The trail lays its
crumbs out from the tip when GTK allocates; `Push`, `Pop`, `Clear`, clicks and the back button.
The application's handler, asked first, may take any number of crumbs and leave the click unhandled
(`TakenFirst`). `BackHasTarget`; `EndOfPathShown`: as much of the path as there is room for and no
more; `PathKept`: a click or the back button leaves the path up to the crumb, if the handler has;
if it has not, the whole path goes, and the process ends (`crashed`) when none is left to begin with.

## Runs

| Run | Shows | Bounds |
|---|---|---|
| `sapwood` | no stale or missing pixmap; implements `SharedImages`; opens answered, unused images freed | 2 clients, 2 files, 2 addresses, 2 requests per socket |
| `server_leak` | violation: an entry without users that nobody can release | 2 opens per client and file, 4 references |
| `components` | `SapwoodStream` (whole requests, in order, callbacks that end), `SapwoodTheme` (exact reference counts and pixmaps), `MatchboxStack` (the list of windows is the order), `HildonProgram`, `HildonBanner`, `HildonNumberEditor`, `HildonRangeEditor`, `HildonFindToolbar`, `HildonBreadCrumbTrail`, `HomeBackground` | 2 clients, 3 requests each of lengths 2, 3 and 5, buffer of 5; 2 files, 2 images, 2 styles, 2 slots, lists of 3, counts below 4; 5 windows; 2 windows, 2 toolbars, 2 events; 2 banners, 2 owners; integers -4..3; range texts -4..5 and one with letters; 3 searches, history of 2; 3 crumbs; 2 images, 2 looks, 3 cache names, 2 calls |
| `stream_split` | violation: a split request makes the callback loop for ever | unread bytes above the buffer |
| `theme_shadow` | violation: an image freed twice | as in `components`, with `ShadowAfterImage` |
| `wm_desktop` | the visible client is on top and exists; where one gets when an app goes; who gets the focus; modal count; dialogs come back | 2 apps (one started iconic, with user time 0), desktop, a modal dialog |
| `wm_stacking` | dialogs above their app in their order, panels between app and dialogs, handlers end; dialogs without a main client on top | either an app with full screen, a panel without input, a dialog and a dialog of it; or an app and 3 dialogs, two of them without parent, one urgent |
| `wm_dangling` | violation: a pointer to a freed client | 2 apps, 1 dialog |
| `desktop` | `HdWm`, `NotificationManager` with its refinement, `SystemNotes`, `SwitcherMenu`, `HomeArea`, `PluginContainer`, `PopupWindow`, `PopupMenu` | 3 windows of 2 applications (two shown in a behaviour), 6 objects, 2 events; ids 0-2, 2 texts, 2 rows and 2 timeouts of an id; 5 notes; 2 notifications in the menu; 3 applets on 3 x 2; 5 plugins, 2 monitor events; 2 panes; 2 items of height 2 and a separator, 3 high, 1 of it for the buttons, one forgotten timer of a kind |
| `editors` | `HildonTimeEditor`, `HildonDateEditor`, `HildonCalendar` | half a day of 2 hours of 2 minutes; 3 months of 6 days (the second one of 4 or 5), 2 years, weeks of 2 days |
| `calendar_first_day` | violation: Left on the first day of the first year moves the selection | as in `editors` |
| `popup_date` | violation: a popup shows another date than the valid one it was given | as in `editors` |

The runs `components`, `desktop` and `editors` hold several parts that do not
interact. A behaviour exercises the part that the initial value of `focus` names, and the
others stay as they began: the state space is the sum of those of the parts, not their
product, and the invariant of a part is checked in all its states.

The bounds let the interesting cases happen: an address is reused while another client
still has requests under way, a file is opened by both clients and given up by one, an
image sits in two lists or twice in one, a bit field reaches its limit, an inner window
is moved past others and to either end. Five windows give a moved window two neighbours on
either side that are different from the neighbours of its new place.

The window manager runs use four windows each with the flags that matter for
their properties, because the states multiply with every window; each run has what its
properties need to be broken: two dialogs in a chain for stacking, two apps and the desktop
for visibility, a panel, and modal, parentless and urgent dialogs. `VisibleOnTop` leaves out
apps mapped with user time 0, which the code makes current without raising them. `MaxModals`
keeps `n_modals_present`, which drifts away when a modal dialog that is iconized goes or is iconized
again, within 1 of zero; `ModalsFollowed` says by how much it drifts, and that nothing else makes it.
`MaxCalls` of 20 is more than the loops of four windows nest when they end.

In `desktop`, two windows of one application and one of another give the cases of the
hibernation walk: an application with several windows, one that cannot be killed, and more
entries than buttons (`NButtons` 1). Two events under way let one be handled after what it
announces has changed. Ids 0 to 2 make the search for the next id wrap around, meet open
and persistent ones and give id 0; two rows and two timeouts of an id, and two rows in all
once an id was given twice, show what the handlers do with them. Five notes are a dialog shown, one closed while it waits, one waiting before and one
behind it, and a new one. Two items reach `ItemsLimit`, so groups form and go. On 3 x 2 an
applet fits in several places, one or none; `MaxEfforts` bounds what the user begins. Two
monitor events are enough for a save of the shell and a write of others to cross, and for
the ignore flag to take the wrong one. Of the menu's notifications and the applications that want attention, are
ignored or sleep there are two at a time; the clock can be dragged to two
places. Two panes let the grab go from one to the other past the
window. Two items are one unit higher than the window and a separator one more, so the second
item shows the buttons and its removal hides them; of the 3 units the viewport keeps 2, and a step of 3
on a range of 3 meets the limit exactly or, on one of 2 or after a selection, passes it. One forgotten timer of
each kind meets the known one in either state.

In `components`, integers of three bits make every sum and difference of the number editor meet
its limits; texts beyond an int stand for what `strtol` cuts. Two images, one of which needs
the cache, two looks and two calls let a preview, its answer and a confirmation cross; three
names are the file in use, the one being written and the one being removed. In `editors` the
numbers of hours, days and weeks are the least with the same comparisons as the real ones:
both halves of a day have an inner hour, months start in every column and end in the last two
rows, and the short month has a day more in leap years.

`CHECK_DEADLOCK FALSE` is set where the system may stop: `components` (all requests sent, the
process aborted, lists at their bound, efforts used up), `desktop` (all notes closed, all timers at their
bound), `editors` (a calendar with equal limits), and
`MatchboxWm` (it stops in states that are not intact and at `MaxModals`).

Fairness: the server's main loop polls all sockets and dispatches every ready one in each
iteration, so each connection's next step is weakly fair; a client blocked in `read`
continues when the reply is there; the X server gets to every connection. Nothing is
assumed about clients: they may never paint, never close, and end at any time. No other
module states fairness: their claims about what must happen are invariants that say that the
timer, event or callback that will do it is there (`ButtonsInStep`, `DetachedReturns`,
`TimedBannersEnd`, `NoDialogStuck`).

## Proofs

Each theorem holds for every value of the constants that its module's assumptions allow:
any number of clients, windows, files or texts, whatever their order. The modules:

| Module | Theorems |
|---|---|
| `Sapwood_proofs` | `ServerInvariant`, `OpenResponsesStayCached`, `RefsAlwaysCoverHolders`, `SapwoodSafe`, `ReferencesExact`, `SapwoodSharesImages` |
| `SapwoodData_proofs` | `StreamSafe`, `ThemeSafe`, `ImagesFreedOnce`, `ThemeClosesOnlyUnused` |
| `Matchbox_proofs` | `StackInvariant`, `PointersSafe`, `ForegroundSafe`, `ComesBackToDesktop`, `RootDialogsSafe` |
| `Panels_proofs` | `PopupSafe`, `PopupMenuSafe`, `ManagerSafe`, `ManagerKeepsPromise`, `NotesSafe`, `ContainerSafe` |
| `Lists_proofs` | what the operators of `Lists` return, for any elements |
| `Desktop_proofs` | `BackgroundSafe`, `HomeSafe`, `MenuSafe`, `SwitcherSafe`, `HibernatedSafe` |
| `HildonWidgets_proofs` | `BannersSafe`, `NumberSafe`, `HistorySafe`, `ProgramSafe`, `TrailSafe`, `ClicksKeepPath` |
| `Editors_proofs` | `TimeSafe`, `DateSafe`, `YearsAreKept`, `RangeSafe`, `CalendarSafe` |

The inductive invariants and why they are needed:

- **Server.** `ServerInv` is inductive. That open responses are cached is not inductive by
  itself: an entry is destroyed when its count reaches zero, so one needs that the count is at
  least the number of holders (`RefsCoverHolders`), and that two entries never share an address
  (`CacheConsistent`), or the close of one file would count for another.
- **Clients, server and X server.** `SapwoodIInv` adds what each client's socket, reply and
  handles say of the server's tables (`ClientIInv`): at most the last request is an open, a
  reply is the response of the file that is waited for, a handle is backed by a count of the
  connection, and closes under way are covered by the counts not yet given back. From it
  follow exact counts (`RefsExact`, an equality where the arbitrary clients of `SapwoodServer`
  only give an inequality) and the refinement of `SharedImages`, step by step
  (`StepsShare`): each step of the composed system is a step of the promise or a stutter.
- **Byte stream.** What is in front of the server is the rest of the buffer followed by the
  socket (`Pending`): reading and returning move bytes inside it, sending adds a request at its
  end and processing takes one off its front. `WellCut` says that this stream is made of whole
  requests, in a form that compares pairs of neighbouring bytes, because a definition by
  recursion over the stream would need an induction over data.
- **Theme data.** `ThemeIInv` says that counts are the cardinalities of the sets of places that
  refer to an image or pixbuf (`CountsExact`); the lemmas are about what parsing, merging and
  clearing do to these sets. The hypothesis `~ShadowAfterImage` is that of the run
  `components`; the run `theme_shadow` shows that without it images are freed twice, and
  `ImagesFreedOnce` that this is the only way.
- **Stack.** The pointers are related to the order by `Agree`; `AddAgrees`, `UnlinkAgrees` and
  `RelinkAgrees` show that each pointer operation preserves it, from facts about inserting into
  and deleting from sequences (`InsertFact`, `DeleteFact`).
- **Window manager.** A handler is a composition of operators from state to state, with loops
  inside that call the same operators again. So there is a lemma per operator about all it
  keeps (`ActivateKeeps`, `MainUnmapKeeps`, `DialogIconizeKeeps` and so on), stated for any
  loops that keep it too (`Outcomes`: what a call may return), and `LoopFact` is the induction
  over the number of turns inside each other. `WmInv` says that the pointers go to managed
  clients and that `trans` has no cycle unless a handler hangs (`Acyclic`: each set of clients
  has one that is transient for none of them); from it follows `PointersSafe`. For the
  foreground `Good` adds that only dialogs are transient, that `client_desktop` is the only
  desktop, that `stack_top_app` is mapped, and that no mapped main client is higher than the
  visible one unless that is one of `StartQuiet`. Between the calls of one handler this does
  not hold: an app is unmapped, or the flag of the desktop reset, before the next one is
  activated. The lemmas therefore say what a call makes of any state: activating a main client
  establishes it. `ForegroundSafe`
  and `ComesBackToDesktop` have two hypotheses, which hold in the runs: `OneDesktop`, and
  `DialogsRetarget` (of the windows that change `WM_TRANSIENT_FOR` once managed, all are
  dialogs). The findings tell what happens without the second.
  `RootDialogsSafe` needs the second alone. Its invariant (`RootOK`) says that a dialog whose
  hint is always `None` is transient for nothing, is above every mapped main client, and above
  every dialog that is not urgent if it is. Other than for the foreground the loops keep all of
  it (`RootCalls`, `LoopRoot`), because each operator that moves something up ends by moving
  these dialogs to the top, the urgent ones last; the lemmas (`RootsToTop`, `UrgentToTop`) are
  about what lies above what after each of these moves. Only the keys that cycle through the
  apps break it in the middle, by a restack of an app of its own; the activation of an app
  that follows establishes it from any state (`ActivateRoot`).
- **Notification manager.** `ManagerIInv` adds that, before the ids are used up, open
  notifications have ids up to `current_id` or in the database and timeouts ids up to
  `current_id` (`Numbered`): without it a new notification could get the id of an open one or
  of a timer that is still to fire. `GivenSound` is why the search comes round only when all
  ids have been given: those up to `current_id` have, and so has what it passes over. The hypothesis `~HintChanges` (updates leave the persistent
  hint as it is) is that of the run; the findings tell what happens otherwise.
- **System notes.** That a waiting dialog has one on the screen before it is not inductive,
  because destroyed dialogs stay in the queue. `EnoughVisible` counts: each destruction takes
  one entry off the queue, so there are at least as many dialogs on the screen as entries that
  do not wait; and the head never waits.
- **Popup windows.** `PopupIInv` is the disjunction of what an open (`PopupOpen`) and a
  closed (`PopupClosed`) window look like, whole records rather than conjuncts. `~OthersGrab`: nobody else
  holds the pointer when the window opens; the code goes on without a grab if so.
- **Popup menus.** `MenuSound`: the places of the items follow from their order and heights
  (`HeightFact`), so selecting the nearest item and scrolling by steps stay inside the list, by
  whichever timer. For `ScrollEnds` one needs that while a timer runs and nothing has crossed it the list has
  not grown (`Shrinking`), so that an end that was reached is still one.
- **Containers.** Between two events a container may lag behind its file, so `ContainerIInv`
  says what is due: while no write has failed it is in step with the file (`Held`), or a monitor
  that is listened to has news. The flag that passes over the container's own write is the hard
  part: as long as it is set the event of that write is still to come, and if the file has changed
  since there is a second one behind it (`Twice`), which the flag does not pass over; a container
  without a file of its own waits for news of the defaults. The loads,
  the policy and the removals are walks over a list; each is a recursive function, of which
  `RecursionFact` says that it exists, and an invariant of the walk says what it leaves
  (`LoadAllFact`, `AddAllFact`, `DestroyAllFact`).
- **Background.** `BackgroundIInv` has two halves. `BackgroundSound` holds whatever the user does:
  cache names under way are apart from those in use (`NamesApart`), and an answer brings the
  background it was asked for with a file of its own or none (`CallsSound`, `RowSound`).
  `BackgroundCalm` holds until the user goes on while an answer is awaited: who waits for which call
  (`OnePending`, `PendingMeant`, `WaitingSound`), what the dialog keeps for a restore
  (`ChooserMeant`), and that answers find their files (`AnswersUsable`). A start establishes it
  from any state that is sound, which is why `crossed` ends there. The theorem has no hypotheses.
- **Home area.** `HomeIInv`: `PlacesSaved` is about every item but the one that is dragged,
  and is not inductive, because the stylus leaves an item on each release. `SpotKept` says of an
  item under way that the place it had `before` is saved (`StartKept`) unless it is `early`: a release either
  announces what has changed since, or finds the item there; and likewise of an applet that is
  remembered but away, for the place it will have (`AwayKept`).
  `StylusOK` says that a press whose timer runs has moved nothing. The list sorted by index is
  given by the rank of each item; `RankFact` shows that ranks are a permutation (by counting, not by
  induction over the list), `SortFact` that what comes out is in order and has the same items.
- **Switcher menu.** `MenuIInv`: what the items show (`ItemsOK`) is claimed of any menu and any
  rows, and what the button shows (`ButtonOK`) of any menu, because a group and "clear" close
  rows one by one and the signal of each one comes before its row goes. `CloseIdsFact` is the
  induction over these rows, with `StepsFact` for numbers up to a limit.
- **Library and switcher.** `HdWmIInv` has two parts. `LibraryOK`: each object is in one place
  of one hash and belongs to the application of its window (`PlacesOK`), has one entry
  (`EntriesOK`), and nothing points to one that is freed (`ActiveOK`); it is proved of any
  library, so that the lemmas can be chained along the windows that are stolen and the list
  that is read (`StealAllFact`, `ListAllFact`). `NewsOK` says what is still to come: that the
  library agrees with the window manager once all events are handled is not inductive, because
  a list that is read late can make a window active after the event of the current window was
  sent. So either an event of the list is pending before that of the current window
  (`Behind`), or no window of the list is new any more (`AllKnown`); likewise for the desktop,
  whose event comes behind that of the last current window (`Overtaken`). That a new window
  finds a free object is counted (`FreeFact`). For `HibernatedSafe` no window that hibernates
  has the key of an awake one (`KeysApart`); the hypothesis that keys differ is that of the run,
  and without it the property fails (see the findings).
- **Banners, number editor, history.** `SoundBanner` relates the timer with the age of the
  message (their sum is at least the period) and the screen with the event that starts the
  timer. `NumberInv` is inductive; the work is in the lemmas about what validation makes of a
  text and what wrapping makes of a sum (`WrapFact`). Distinctness of the rows carries the
  history: only with it is a text that is searched again gone after one removal.
- **Programs.** `ProgramIInv` adds that only one living window is topmost when a window of the
  program is, that the program knows it, and that the toolbar is there (`OneOnTop`): otherwise
  the next event could move the toolbar to another one. For that one needs that what is active
  is shown (`ActiveShown`), that a window which was never made is not topmost (`MadeOrNot`), and
  that the list has a window once (`ListedOnce`), or one removal would leave it tracked twice.
- **Trail.** `PathOK` and `TipShown`, the part that is shown with its bound from above and from
  below. The width of a path is a number of pixels, the cardinality
  of a set, so that `PixelsFact` (a crumb more adds its width) needs no induction over the path;
  `FitFact` finds the last crumb that fits as the one before the least that does not.
- **Time and date editors.** `Timed` and `AtEase`, `Dated` and `EntriesRight` say what holds
  inside an edit and what holds when it has ended, for each entry by itself.
- **Range editor.** `RangeIInv`: an end that has not the focus is a number within the limits,
  and the ends are in order when none has it. What is typed into an end is checked when the
  focus leaves it, so that this is what the other end may rely on meanwhile. The attempt showed
  that the exception of the guard of `AppSetsEnd` was stated for positive numbers alone: two
  negative ones that the application sets for the ends cross in the other order. The run has
  two negative values since.
- **Calendar.** `CalendarIInv`: whatever moves, the selected day is one the month has and the
  focus is on its cell (`OnDay`), unless the application has just selected a month or a day
  (`pending`). The lemmas are about one step of each key over the ends of a month; that Left
  and Right undo each other compares two of them.

Folds over sequences and sums were rewritten as sets, functions and cardinalities in the
modules that are proved about. Inductions over numbers are done by hand with the least
counterexample (`NatLessThanWellFounded` and `WFMin`, see `SmallestFact`, `LastFact` and `StepsFact`).

The assumptions are those named in the modules (`ServerAssumption`, `ManagerAssumption` and so
on): finite clients, null values that differ from proper ones, positive lengths and periods, years
without gaps.

Only model-checked:

- liveness (`OpensAnswered`, `UnusedFreed`, `CallbackEnds`, `SocketsEmptied`), which is out of the
  provers' reach;
- of `MatchboxWm`: `PanelsInv` (that handlers return depends on the dialogs there are, see the
  findings; the places of panels and of the dialogs of a main client were not attempted) and
  `FocusKept`;
- `PlacedFree` of `HomeArea`: that the free region misses no free place is an induction over
  the rectangles taken from it.

## Findings

Six disagreements between the code and what it says of itself are runs:

- The server leaks an image that one client opens twice (`server_leak`).
- The server loops for ever on a split request (`stream_split`).
- A `shadowcolor` line behind an image block makes a later free act twice (`theme_shadow`).
- `next_focused_client` can point to a freed client (`wm_dangling`).
- Left on the first day of the first year goes to the last day of the month
  (`calendar_first_day`).
- A popup does not show the valid date it is given when today is at the end of a long month
  (`popup_date`).

The others are limits of the passing properties: the exceptions their definitions and
constants name.

### Window manager

`MatchboxWm` shows the following with other constants.

| With | TLC finds |
|---|---|
| `Modal` two dialogs of one app, `HandlersReturn` | iconizing the app never ends: each iconized dialog activates the other, which the walk over the live stack (`main_client.c:781`) then meets again |
| a dialog that leads its own group, hints `Unmanaged`, `HandlersReturn` | `wm_make_new_client` makes it transient for itself (`wm.c:2117`), and every loop along `trans` spins |
| two dialogs for one app, `TransientsRestored` | restoring the app restores only the first: showing it moves it above the second (`main_client.c:834`) |
| an app in `Retarget`, `ForegroundInv` | `wm_handle_property_change` makes an app transient for another (`wm.c:1880`); iconizing and restoring the other shows the first on top of it, while `stack_top_app` is the other |
| no groups, `NewDialogKeepsFocus` | a dialog of a hidden app takes the focus, because `win_group` 0 equals 0 (`wm.c:2773`) |
| a modal dialog iconized and closed | `n_modals_present` is decremented twice (`dialog_client.c:1281`, `:1307`); `ModalsFollowed` says that it falls behind only so, by one for each modal dialog that is minimised already |

Two more follow from the definitions. A window mapped with user time 0 is placed below the
visible one, but `ActivateMain` still makes it `stack_top_app` and focuses it
(`main_client.c:848`). A dialog that an app remembers in `next_focused_client` gets the focus
when the app comes back, also when it has been iconized in between (`wm.c:2640`). The array
for `XRestackWindows` is sized by a count of blocker windows but filled from the clients
(`stack.c:191`); blockers are not modelled.

### Theme engine

A failing `process_buffer` leaves `buflen` as it is, so the next client's bytes come behind the
bad request (`sapwood-server.c:461`); a short read of a reply leaves its rest for the next
request (`sapwood-pixmap.c:67`); the cache is keyed by file name although the parts depend on
the borders of the first open (`sapwood-server.c:309`); parsing a block reverses images merged
before (`sapwood-rc-style.c:816`); a name of `PATH_MAX` characters is cut by one but announced
whole (`sapwood-pixmap.c:102`). These need ill-formed requests, errors of sockets or the
matching of images, which the modules do not have.

### libhildonwm and switcher

- With equal hibernation keys for two windows `HibernatedKept` fails: one entry replaces the
  other. Closing one window of an application that is being killed clears its flag, and an
  application that shows a window with a new key stays flagged. A second process of the same
  application is flagged but not signalled.
- A window with user time 0 becomes the active window of the library. The dialog of the
  memory killer lists 10 entries at most (about `hd-wm.c:468`), and the test of
  `killed_by_dialog` is one of the pointer. `hd_wm_relaunch_timeout` does nothing although the
  comment at `hd-wm.c:1474` says that a banner is shown. The comparison of icons in
  `hd_wm_application_update` is inverted, and the test for duplicates when a child is added
  compares the wrong pointer (`:166`).
- `AllListed` (in `SwitcherMenu`, checked by no run) fails: members of a group lose their item
  when one of them is closed. The button may go on blinking for nothing, and so may the item of
  an application whose hint was ignored or that slept: when the hint is taken back
  `hd-switcher-menu.c:2276` and `:2283` return before the lines that end it, unless the buttons
  of the switcher were told first. `UngroupedListed` and `ItemsBlink` say what does hold. Items of system notes never
  follow their acknowledgement. `TopAppSpared` and `SleepersFlagged` (in `HdWm`) fail likewise:
  the application on the screen can be killed in the background.

### Notifications

- With `HintChanges`, a notification that becomes persistent or stops being it leaves rows in
  the table of hints that make a later insert fail, and its timer outlives it
  (`KeptStored`, `TextsMatch`, `TimersOwn` fail). An update changes hints, actions and timeout in the
  database but not in the row.
- Closing a dialog that waits makes the next destruction show one more, so that two are on
  the screen; `OneDialog` excludes that history. Persistent system notes are loaded after a
  restart but never shown.
- A missing icon leaves the D-Bus call without a reply; byte hints are written as numbers and
  read as characters; the search for ids looks at the database only, so that after `G_MAXUINT`
  new notifications share ids with open ones (`:213`, `clashed`).

### Home area, containers, background

- A save in the middle of a drag that ends where it began leaves the wrong place in the file
  (`early`, as well as what follows, is the exception `PlacesSaved` names).
  Raising announces no change of the layout, and the next sort undoes it. An applet from the
  remembered layout that arrives after a save is not saved.
  `substract_rectangle_from_region` keeps a rectangle that is covered as a whole, so a new
  applet can be put over another although there is room (`PlacedFree` names the case). An
  applet added while the home view is covered or the screen is off is never told.
- A failed save of a container leaves the ignore flag, and the next change from outside is
  ignored. `plugin_dir_changed` writes the list from the container, so a change of the file
  not yet handled is lost. Plugins that failed to load and groups with `X-Load=false` are
  dropped by the next save. A plugin named in the file and installed later is loaded only at
  the next synchronisation.
- The policy of the task navigator does not count items behind the contact plugin, so four
  plugins can result; a third plugin can be replaced by the browser, so the applications menu
  can vanish; the filter is not idempotent, so what is saved differs after a restart.
  On finalization a container's info is freed before its children, whose removal saves again
  (`hd-desktop.c:627`).
- `HomeBackground`, when the user goes on while an answer is awaited (`crossed`): the second preview forgets the timeout of the first, and
  an orphan cancel note appears (`NoteHasReason`); confirming a remote image, opening the
  dialog again and confirming the old background before the answer arrives removes the cache
  file just written, and the later answer saves a name without a file (`CacheUsable`);
  cancelling while a preview is under way leaves the preview on the screen (`SavedIsShown`).
  When a save fails, the cache is cleaned although the file still names what it held
  (`unsaved` in `CacheUsable`). All this ends with the next start. An OK that fails after a preview leaves the preview on the screen.
  `write_to_cache` does not advance in its buffer on partial writes. Choosing a file again
  removes the active row through an uninitialised iterator (`filename_changed`).

### Windows and banners

- Applications that remove a window from the program and destroy it, or add one that is
  already topmost, lose or misplace the common toolbar; the properties are for those that
  follow the documented order (see the guards). `is_topmost` of the program stays `TRUE` when
  no window is active, against the comment at `hildon-program.c:188`. A window without X
  window has id `None` and counts as topmost when none is. Removing a window of another
  program makes `window_count` wrong. The hibernation property stays on a removed window.
- A handler that shows a new message and lets the old banner close leaves a timer on a freed
  banner (`hildon-banner.c:301`). A kept, hidden banner is destroyed by the next timeout.

### Editors, calendar, toolbar, trail

- Number: "+" at `G_MAXINT` wraps before it is compared; timers survive the widget. Range:
  `set_range` checks the new start against the end shown before, so `(5, 8)` on `[1, 2]` gives
  `[2, 8]`, against `hildon-range-editor.c:865`; a higher end set below the lower one is kept if both are
  positive, a lower end above the higher one if both are negative (`TakenForTyping`).
- Time: a minimum above the maximum, then a new maximum, leaves a duration below its minimum;
  letters in a field stay, and with them other edits; the AM/PM button appears on 24 hour
  clocks after duration mode, where a click in the morning takes half a day from the time:
  as the ticks are unsigned the last hour of the day comes out, with any minute. Date: Escape and a move of the focus leave an invalid date;
  limits that would move the 29 of February to a common year are refused.
- Calendar: besides the findings `calendar_first_day` and `popup_date` below, after the
  application selects a month, the selected day may not exist in it. Days and months are
  compared at a release, so that other clicks than plain ones can announce a day that was not
  pressed: a press on 30 March shown with April and a release on 30 April announces that; a day
  of the month that is pressed, slid away from, and released out of the grid where the word
  read equals it announces the day slid to; a press out of the grid can select the first or
  second day. The flag for days that cannot be chosen can stay set for the next click.
- Find toolbar: an application that changes its list behind the filter sees stale rows; the
  comment "Latest string is always the first one in list" is not what the code does. Trail: a
  handler that removes all crumbs and returns `FALSE` leads to a null pointer
  (`hildon-bread-crumb-trail.c:426`, `crashed`), one that removes the crumb that was clicked or
  rebuilds the trail loses all of it; a tip that does not fit leaves stale visibility.

## Not modelled

- Drawing, layout and image processing: sapwood's style drawing, the decoration and theme code
  of matchbox, pixbuf and font code of `libmatchbox`, composite painting, scaling of
  backgrounds. No state that interacts; this is more than half of the code of these programs,
  and with GTK+ boilerplate the reason why the mapped share of the whole stays low.
- Widgets of `libhildon1` that are layout only: control, seek and volume bars, time and
  weekday pickers, code, password and wizard dialogs, colour chooser, captions.
- Panels of the desktop library, positions of popup windows, and the fake button events of a
  build with `MAEMO_CHANGES`. Read, not modelled: a popup menu that is finalized while it
  scrolls keeps its timeout, hidden items do not recompute the controls, and an expandable panel
  whose arrow goes away leaves its extension out of reach. With `OthersGrab = TRUE` the module
  `PopupWindow` shows that a popup window whose transfer window fails to grab leaves the grab
  of GTK+ behind; nothing in the source says what should happen then.
- In modelled components: the low-memory dialog, start-up banners, ping timeouts, toolbars and
  titlebar panel of the window manager, the applications menu, what plugins do inside, snap to
  grid, unrealized items, seconds, week numbers, the option `NO_MONTH_CHANGE`, drag and drop
  and right-to-left layout of the calendar.
- Theme cacher, theme tools, scripts and translations: sequential input and output.

## Plan

1. The seek and volume bars and the docking protocol of `mbtray.c`.
2. Ping timeouts and toolbars of the window manager; the low-memory dialog.
3. `sapwood-style.c` matching, with the borders in the server's cache key.
