------------------------------ MODULE Xwayland ------------------------------
(***************************************************************************)
(* X11 surfaces (desktop/xwayland.c): views, which get a window in the     *)
(* tree, and unmanaged ones, menus and tooltips, which do not.  A surface  *)
(* may change from one to the other at any time.                           *)
(*                                                                         *)
(* An X11 surface has a wl_surface while it is associated, and listeners   *)
(* for its mapping are added and removed with it; an object that goes      *)
(* without removing its own leaves it behind on the wl_surface.  Handlers  *)
(* share helpers, so they are operators on the whole state, a record.      *)
(* Positions and sizes are names, Zero is the empty one.  A transaction is *)
(* reduced to what views see of it (see Transaction), the tree to what is  *)
(* active in it (see Tree): one of these windows, or None for others.      *)
(*                                                                         *)
(* Modelled from their use: the order of wlroots' events, and X11 clients. *)
(***************************************************************************)
EXTENDS FiniteSets, Naturals

CONSTANTS
  XSurface,
  Menus,       \* the surfaces that begin with override-redirect set
  Changeable,  \* the surfaces that may change it
  Geometry     \* what a client may be asked for, or ask for

None == "none"
Zero == "zero"
NoConfigure == [tiled |-> FALSE, full |-> FALSE, geometry |-> Zero]
ASSUME NameAssumption == None \notin XSurface /\ Zero \notin Geometry

VARIABLE xw
xwVars == <<xw>>

Mapped(s, x) == x \in s.mapped
IsLive(s, x) == s.window[x] = "live"
Layout(s, x) == [tiled |-> x \notin s.floating, full |-> x \in s.full, geometry |-> s.content[x]]

\* The state at the start.
Initially ==
  [object |-> [x \in XSurface |-> "none"], redirect |-> Menus, parent |-> [x \in XSurface |-> None],
   associated |-> {}, mapped |-> {}, listening |-> {}, stale |-> {}, switched |-> {}, shown |-> {},
   window |-> [x \in XSurface |-> "none"], floating |-> {}, full |-> {}, wantsFull |-> {},
   minimized |-> {}, floatSize |-> [x \in XSurface |-> Zero], content |-> [x \in XSurface |-> Zero],
   geometry |-> [x \in XSurface |-> Zero], own |-> {},
   configured |-> [x \in XSurface |-> NoConfigure], configuring |-> {}, lost |-> FALSE,
   dirty |-> {}, phase |-> "idle", active |-> None, unmanaged |-> None, surface |-> None,
   focused |-> None, told |-> {}, failed |-> "no"]

\* An assertion fails, or memory that was freed or never set is used: the model stops, and
\* forgets what it was.
XFail(why) == [Initially EXCEPT !.failed = why]

-----------------------------------------------------------------------------
(* The focus.  Unmanaged surfaces take it without having a window. *)

\* root_commit_focus, with handle_root_focus_changed of each view that has a window
XCommitFocus(s) ==
  LET surface == IF s.unmanaged # None THEN s.unmanaged ELSE s.active
      window == IF s.unmanaged # None THEN None ELSE s.active
      new == [s EXCEPT !.surface = surface, !.focused = window]
  IN  IF s.surface = surface THEN new
      ELSE [new EXCEPT !.told = (@ \ s.shown) \cup ({window} \cap s.shown),
                       !.minimized = @ \ ({window} \cap (s.shown \ s.told))]

\* root_set_focused_window and root_set_focused_surface
FocusXWindow(s, x) == [s EXCEPT !.active = x, !.unmanaged = None]
FocusUnmanaged(s, x) == [s EXCEPT !.active = None, !.unmanaged = x]

-----------------------------------------------------------------------------
(* Views. *)

\* create_xwayland_view, calloc and all
CreateView(s, x) ==
  [s EXCEPT !.object[x] = "view", !.window[x] = "none", !.configured[x] = NoConfigure,
            !.listening = @ \ {x}, !.told = @ \ {x}]

\* hwd_xwayland_view_handle_xsurface_map.  The window floats or not as wants_floating
\* has it, and takes the focus as should_focus has it.  The parent's window is asked
\* for whatever the parent is.
MapView(s, x, floats, focuses, natural) ==
  LET window == [s EXCEPT !.window[x] = "live", !.shown = @ \cup {x}, !.dirty = @ \cup {x},
                          !.floating = IF floats THEN @ \cup {x} ELSE @ \ {x},
                          !.floatSize[x] = natural, !.content[x] = Zero,
                          !.full = IF x \in s.wantsFull THEN @ \cup {x} ELSE @ \ {x}]
      focused == IF focuses THEN FocusXWindow(window, x) ELSE window
      p == s.parent[x]
  IN  IF x \in s.shown THEN XFail("surface")
      ELSE IF p # None /\ s.object[p] # "view" THEN XFail("no view")
      ELSE IF p # None /\ focused.window[p] = "dead" THEN XFail("dead window")
      ELSE XCommitFocus(focused)

\* Mutant: the view stops listening for the focus before it is committed.
UnmapViewUntold(s, x, next) ==
  LET gone == [s EXCEPT !.window[x] = "dead", !.dirty = @ \cup {x}, !.full = @ \ {x}, !.floating = @ \ {x},
                        !.content[x] = Zero, !.floatSize[x] = Zero, !.shown = @ \ {x},
                        !.lost = @ \/ x \in s.configuring, !.configuring = @ \ {x}]
  IN  IF x \notin s.shown THEN XFail("surface")
      ELSE XCommitFocus(IF s.active = x THEN [gone EXCEPT !.active = next] ELSE gone)

\* hwd_xwayland_view_handle_unmap, with window_begin_destroy.  Next becomes active if
\* the window was; a lock that it holds is lost.
UnmapView(s, x, next) ==
  LET gone == [s EXCEPT !.window[x] = "dead", !.dirty = @ \cup {x}, !.full = @ \ {x}, !.floating = @ \ {x},
                        !.content[x] = Zero, !.floatSize[x] = Zero,
                        !.lost = @ \/ x \in s.configuring, !.configuring = @ \ {x}]
      left == XCommitFocus(IF s.active = x THEN [gone EXCEPT !.active = next] ELSE gone)
  IN  IF x \notin s.shown THEN XFail("surface") ELSE [left EXCEPT !.shown = @ \ {x}]

\* hwd_xwayland_view_handle_destroy: the listeners for mapping are not among those
\* that are removed, and the view itself is never freed.
DestroyView(s, x) ==
  IF x \in s.shown THEN XFail("surface")
  ELSE [s EXCEPT !.object[x] = "none", !.window[x] = "none",
                 !.stale = IF x \in s.listening THEN @ \cup {x} ELSE @, !.listening = @ \ {x}]

-----------------------------------------------------------------------------
(* Unmanaged surfaces. *)

\* hwd_xwayland_create_unmanaged
CreateUnmanaged(s, x) == [s EXCEPT !.object[x] = "unmanaged", !.listening = @ \ {x}]

\* hwd_xwayland_unmanaged_handle_xsurface_map, of a surface that wants the focus or not
MapUnmanaged(s, x, focuses) ==
  LET shown == [s EXCEPT !.shown = @ \cup {x}]
  IN  XCommitFocus(IF focuses THEN FocusUnmanaged(shown, x) ELSE shown)

\* hwd_xwayland_unmanaged_handle_xsurface_unmap: the focus returns to the parent if the
\* seat had it here, and otherwise stays where it is.
UnmapUnmanaged(s, x, parentFocuses) ==
  LET gone == [s EXCEPT !.shown = @ \ {x}]
      p == s.parent[x]
      returns == s.surface = x /\ p # None /\ p \in s.associated /\ parentFocuses
  IN  XCommitFocus(IF returns THEN FocusUnmanaged(gone, p) ELSE gone)

\* hwd_xwayland_unmanaged_handle_xsurface_destroy
DestroyUnmanaged(s, x) ==
  [s EXCEPT !.object[x] = "none", !.stale = IF x \in s.listening THEN @ \cup {x} ELSE @,
            !.listening = @ \ {x}]

-----------------------------------------------------------------------------
(* Events of wlroots. *)

Listed(x) == xw.object[x] # "none"

\* What a handler finds out when a surface is mapped, and when it is unmapped: whether
\* it floats, takes the focus, its natural size; what becomes active after it, another
\* window of the workspace or one that is not X11's, and whether the parent may have
\* the focus.
MapChoice == [floats : BOOLEAN, focuses : BOOLEAN, natural : Geometry]
NoChoice == CHOOSE c \in MapChoice : TRUE
UnmapChoice(x) ==
  IF xw.object[x] = "view" THEN [next : {None} \cup {y \in XSurface \ {x} : IsLive(xw, y)}, returns : {FALSE}]
  ELSE [next : {None}, returns : BOOLEAN]

\* hwd_xwayland_handle_new_surface
NewSurface(x) ==
  /\ ~Listed(x)
  /\ xw' = IF x \in xw.redirect THEN CreateUnmanaged(xw, x) ELSE CreateView(xw, x)

\* handle_xsurface_associate, of both kinds
Associate(x) ==
  /\ Listed(x) /\ x \notin xw.associated
  /\ xw' = [xw EXCEPT !.associated = @ \cup {x}, !.listening = @ \cup {x}, !.stale = @ \ {x}]

\* Mutant: the listeners for mapping stay when the surface is dissociated.
DissociateListening(s, x) ==
  IF x \notin s.listening THEN XFail("listener") ELSE [s EXCEPT !.associated = @ \ {x}]

\* handle_xsurface_dissociate, of both kinds, removes listeners whether or not they
\* were added.
HandleDissociate(s, x) ==
  IF x \notin s.listening THEN XFail("listener")
  ELSE [s EXCEPT !.associated = @ \ {x}, !.listening = @ \ {x}]
Dissociate(x) == x \in xw.associated \ xw.mapped /\ xw' = HandleDissociate(xw, x)

HandleMap(s, x, c) ==
  IF s.object[x] = "view" THEN MapView(s, x, c.floats, c.focuses, c.natural)
  ELSE MapUnmanaged(s, x, c.focuses)
HandleUnmap(s, x, c) ==
  IF s.object[x] = "view" THEN UnmapView(s, x, c.next) ELSE UnmapUnmanaged(s, x, c.returns)

\* The wl_surface is mapped or unmapped, and whoever listens is told.
XMap(x, c) ==
  LET mapped == [xw EXCEPT !.mapped = @ \cup {x}]
  IN  /\ x \in xw.associated \ xw.mapped
      /\ xw' = IF x \in xw.stale THEN XFail("listener")
               ELSE IF x \in xw.listening THEN HandleMap(mapped, x, c) ELSE mapped
XUnmap(x, c) ==
  LET unmapped == [xw EXCEPT !.mapped = @ \ {x}]
  IN  /\ x \in xw.mapped
      /\ xw' = IF x \in xw.stale THEN XFail("listener")
               ELSE IF x \in xw.listening THEN HandleUnmap(unmapped, x, c) ELSE unmapped

\* handle_xsurface_override_redirect, of both kinds: one object becomes the other and,
\* if the surface is mapped, is unmapped before and mapped afterwards.
OverrideRedirect(x, c, d) ==
  LET mapped == Mapped(xw, x)
      s == [xw EXCEPT !.redirect = IF x \in @ THEN @ \ {x} ELSE @ \cup {x},
                      !.switched = IF x \in xw.associated THEN @ \cup {x} ELSE @]
      left == IF mapped THEN HandleUnmap(s, x, c) ELSE s
      new == IF s.object[x] = "view" THEN CreateUnmanaged(DestroyView(left, x), x)
             ELSE CreateView(DestroyUnmanaged(left, x), x)
  IN  /\ x \in Changeable /\ Listed(x)
      /\ xw' = IF left.failed # "no" THEN left ELSE IF mapped THEN HandleMap(new, x, d) ELSE new

\* wlroots dissociates a surface before it destroys it, and takes it from its children.
XDestroy(x) ==
  LET s == IF xw.object[x] = "view" THEN DestroyView(xw, x) ELSE DestroyUnmanaged(xw, x)
  IN  /\ Listed(x) /\ x \notin xw.associated
      /\ xw' = [s EXCEPT !.switched = @ \ {x}, !.own = @ \ {x}, !.wantsFull = @ \ {x},
                         !.redirect = IF x \in Menus THEN @ \cup {x} ELSE @ \ {x},
                         !.minimized = @ \ {x}, !.geometry[x] = Zero,
                         !.parent = [y \in XSurface |-> IF s.parent[y] = x \/ y = x THEN None ELSE s.parent[y]]]

-----------------------------------------------------------------------------
(* Requests of clients. *)

IsView(x) == xw.object[x] = "view"

\* handle_xsurface_set_parent: a view's window, also when it is gone
SetParent(x, p) ==
  LET s == [xw EXCEPT !.parent[x] = p]
      parent == IF p = None THEN "none" ELSE xw.window[p]
  IN  /\ Listed(x) /\ p # xw.parent[x]
      /\ p \in {None} \cup {y \in XSurface \ {x} : Listed(y) /\ xw.parent[y] = None}
      /\ xw' = IF IsView(x) /\ xw.window[x] # "none" /\ "dead" \in {parent, xw.window[x]}
               THEN XFail("dead window") ELSE s

\* handle_xsurface_set_hints and handle_xsurface_set_title
SetHints(x) ==
  /\ IsView(x) /\ xw.window[x] # "none"
  /\ xw' = IF IsLive(xw, x) THEN [xw EXCEPT !.dirty = @ \cup {x}] ELSE XFail("dead window")

\* handle_xsurface_request_configure: a mapped surface gets what the layout has for it.
RequestConfigure(x, g) ==
  /\ Listed(x) /\ (~IsView(x) => xw.geometry[x] # g)
  /\ xw' = IF ~IsView(x) THEN [xw EXCEPT !.geometry[x] = g]
           ELSE IF ~Mapped(xw, x) THEN [xw EXCEPT !.geometry[x] = g, !.own = @ \cup {x}]
           ELSE IF IsLive(xw, x) THEN [xw EXCEPT !.dirty = @ \cup {x}] ELSE XFail("dead window")

\* handle_xsurface_request_fullscreen.  The wish to leave is not granted.
XRequestFullscreen(x, wish) ==
  LET s == [xw EXCEPT !.wantsFull = IF wish THEN @ \cup {x} ELSE @ \ {x}]
      full == IF x \in xw.full THEN s ELSE [s EXCEPT !.full = @ \cup {x}, !.dirty = @ \cup {x}]
  IN  /\ IsView(x)
      /\ xw' = IF IsLive(xw, x) /\ Mapped(xw, x) /\ wish # (x \in xw.full) THEN full ELSE s

\* handle_xsurface_request_minimize
RequestMinimize(x, wish) ==
  /\ IsView(x) /\ Mapped(xw, x)
  /\ xw' = [xw EXCEPT !.minimized = IF wish /\ ~(xw.unmanaged = None /\ xw.active = x)
                                    THEN @ \cup {x} ELSE @ \ {x}]

\* handle_xsurface_request_activate: a view is focused if the configuration has it so; an
\* unmanaged surface is not asked whether it has a wl_surface.
RequestActivate(x) ==
  /\ Listed(x)
  /\ xw' = IF IsView(x)
           THEN IF IsLive(xw, x) /\ Mapped(xw, x) THEN XCommitFocus(FocusXWindow(xw, x)) ELSE xw
           ELSE IF x \notin xw.associated THEN XFail("no surface")
           ELSE IF Mapped(xw, x) THEN XCommitFocus(FocusUnmanaged(xw, x)) ELSE xw

\* handle_xsurface_commit.  The geometry that it compares with is never set, so every
\* commit is a new size, and the size of a floating window becomes zero.
ClientCommit(x, g) ==
  LET resized == IF x \in xw.floating THEN [xw EXCEPT !.floatSize[x] = Zero, !.dirty = @ \cup {x}] ELSE xw
      ready == x \in xw.configuring /\ xw.geometry[x] = xw.content[x] /\ g = xw.content[x]
      answered == [resized EXCEPT !.configuring = @ \ {x}]
  IN  /\ IsView(x) /\ x \in xw.shown
      /\ xw' = IF ~ready THEN resized
               ELSE IF xw.lost \/ xw.configuring # {x} THEN answered
               ELSE [answered EXCEPT !.phase = "applying"]

-----------------------------------------------------------------------------
(* The tree and its transactions. *)

\* The user focuses a window, or makes it fullscreen or not; it floats or not as it did when
\* it was mapped.
UserFocus(x) ==
  /\ x \in {None} \cup {y \in XSurface : IsLive(xw, y)}
  /\ xw' = XCommitFocus(FocusXWindow(xw, x))
UserFullscreen(x) ==
  /\ IsLive(xw, x)
  /\ xw' = [xw EXCEPT !.full = IF x \in @ THEN @ \ {x} ELSE @ \cup {x}, !.dirty = @ \cup {x}]

\* The windows of asked are asked for what changed since they were last asked.
Ask(s, asked) ==
  LET resized == {x \in asked : s.configured[x].geometry # s.content[x]}
  IN  [s EXCEPT !.configured = [x \in XSurface |-> IF x \in asked THEN Layout(s, x) ELSE @[x]],
                !.geometry = [x \in XSurface |-> IF x \in resized THEN s.content[x] ELSE @[x]],
                !.own = @ \ resized,
                !.wantsFull = (@ \ {x \in asked : s.configured[x].full}) \cup {x \in asked : x \in s.full},
                !.configuring = asked]

\* Mutant: what a hidden window would be asked for is noted all the same.
ConfigureHidden(s, visible) ==
  [Ask(s, {x \in visible : s.configured[x] # Layout(s, x)}) EXCEPT
     !.configured = [x \in XSurface |-> IF IsLive(s, x) /\ x \in s.dirty THEN Layout(s, x) ELSE @[x]]]

\* hwd_xwayland_view_handle_window_commit of the windows in dirty: a visible one is asked
\* if something changed, and waited for.
Configure(s, visible) == Ask(s, {x \in visible : s.configured[x] # Layout(s, x)})

\* A transaction begins: dirty windows are arranged, tiled ones as the tree has it.
BeginTransaction(visible, g) ==
  LET live == {x \in xw.dirty : IsLive(xw, x)}
      arranged == [xw EXCEPT !.content = [x \in XSurface |->
                     IF x \notin live THEN @[x]
                     ELSE IF x \in xw.floating \ xw.full THEN xw.floatSize[x] ELSE g]]
      asked == Configure(arranged, visible)
  IN  /\ xw.phase = "idle" /\ xw.dirty # {} /\ visible \subseteq live
      /\ xw' = [asked EXCEPT !.dirty = {}, !.phase = IF asked.configuring = {} THEN "applying" ELSE "waiting"]

\* The timer of the transaction
XTimeout == xw.phase = "waiting" /\ xw' = [xw EXCEPT !.phase = "applying"]

ApplyTransaction ==
  xw.phase = "applying" /\ xw' = [xw EXCEPT !.phase = "idle", !.configuring = {}, !.lost = FALSE]

XwaylandInit == xw = Initially

\* Applying follows at once: nothing else runs in between.
XwaylandNext ==
  /\ xw.failed = "no"
  /\ \/ ApplyTransaction
     \/ /\ xw.phase # "applying"
        /\ \/ \E x \in XSurface :
                \/ NewSurface(x) \/ Associate(x) \/ Dissociate(x) \/ XDestroy(x)
                \/ SetHints(x) \/ RequestActivate(x) \/ UserFullscreen(x)
                \/ \E d \in MapChoice : XMap(x, d)
                \/ \E c \in UnmapChoice(x) :
                     XUnmap(x, c) \/ \E d \in IF Mapped(xw, x) THEN MapChoice ELSE {NoChoice} : OverrideRedirect(x, c, d)
                \/ \E p \in XSurface \cup {None} : SetParent(x, p)
                \/ \E g \in Geometry : RequestConfigure(x, g) \/ ClientCommit(x, g)
                \/ \E wish \in BOOLEAN : XRequestFullscreen(x, wish) \/ RequestMinimize(x, wish)
           \/ \E x \in XSurface \cup {None} : UserFocus(x)
           \/ \E visible \in SUBSET XSurface, g \in Geometry : BeginTransaction(visible, g)
           \/ XTimeout

XwaylandSpec == XwaylandInit /\ [][XwaylandNext]_xwVars

-----------------------------------------------------------------------------
(* Properties. *)

\* A surface that changes its kind only while it has no wl_surface is shown as long as
\* it is mapped, whichever kind it has become, a view's window is live as long, and no
\* listener is left on the wl_surface.
SurfacesAreShown ==
  xw.failed = "no" =>
    \A x \in XSurface \ xw.switched :
      /\ x \in xw.shown <=> x \in xw.mapped
      /\ IsLive(xw, x) <=> xw.object[x] = "view" /\ x \in xw.mapped
      /\ x \in xw.listening <=> x \in xw.associated
      /\ x \notin xw.stale

\* A client believes that its window is active only while the root's focus is there, and
\* a window that has the focus is not minimized.
ActiveIsFocused ==
  xw.failed = "no" => \A x \in xw.told \ xw.switched : x = xw.focused /\ IsLive(xw, x) /\ x \notin xw.minimized

\* A window that a transaction waits for has been asked for the geometry that it waits
\* for, so that an answer can end the wait; only a client that moved its surface while
\* it was unmapped may not be told where it is.
WaitCanEnd ==
  /\ \A x \in xw.configuring \ xw.own : xw.geometry[x] = xw.content[x]
  /\ \A x \in xw.configuring : IsLive(xw, x) /\ xw.configured[x].geometry = xw.content[x]

\* Not so, and checked by no run (README, section 4): a view's window is alive whenever something is done to it ("NULL if unmapped and
\* transactions finished", xwayland.h; "assert(parent == NULL ||
\* window_is_alive(parent))", window.c 789).
NoDeadWindow == xw.failed # "dead window"
=============================================================================
