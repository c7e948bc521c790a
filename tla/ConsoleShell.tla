----------------------------- MODULE ConsoleShell -----------------------------
(***************************************************************************)
(* The frame every page of the console is shown in: the tab strip and what *)
(* the UI store keeps of it (frontend/src/stores/uiStore.ts, TabBar.tsx),  *)
(* the layers that can cover a page (AppShell.tsx), the sidebar, and the   *)
(* keyboard dispatcher that shares the keys out among page and shell       *)
(* (hooks/useKeyboard.ts).                                                 *)
(*                                                                         *)
(* Keys are told apart by what is bound to them.  A step is one event with *)
(* the renders and effects it causes.  Preferences that only their own     *)
(* control reads are left out.                                             *)
(***************************************************************************)
EXTENDS Integers, Sequences, FiniteSets

CONSTANTS
  Paths, Home, MapPath,   \* pages; the map binds keys the shell binds too
  MAX_TABS                \* 12 in the code

ShellAssumption ==
  Home \in Paths /\ MapPath \in Paths /\ MAX_TABS \in Nat /\ MAX_TABS >= 2

VARIABLES
  path,       \* location.pathname
  tabs,       \* the tab strip, left to right
  covers,     \* what lies over the page, see Layers
  session,    \* "out", "in", "locked"
  sidebar     \* mode, hover, and the timer that opens it on hover

shellVars == <<path, tabs, covers, session, sidebar>>

\* dialog: a Modal of the page; modal: a special modal of the shell; help: the
\* shortcuts overlay; popover: a menu with role "dialog"; panic: PanicMode.
Layers == {"popover", "dialog", "modal", "help", "panic"}
Radix == {"popover", "dialog", "modal", "help"}

ShellTypeOK ==
  /\ path \in Paths
  /\ tabs \in Seq(Paths)
  /\ covers \subseteq Layers
  /\ session \in {"out", "in", "locked"}
  /\ sidebar \in [pinned : BOOLEAN, hover : BOOLEAN, timer : BOOLEAN]

Open == {tabs[i] : i \in DOMAIN tabs}
IndexOf(p) == CHOOSE i \in DOMAIN tabs : tabs[i] = p

\* The filter of closeTab: what is left of seq without p, in its order.
Without(seq, p) ==
  LET kept == {i \in DOMAIN seq : seq[i] # p}
      rank(i) == Cardinality({k \in kept : k <= i})
  IN  [n \in 1..Cardinality(kept) |-> seq[CHOOSE i \in kept : rank(i) = n]]

\* Mutant of Oldest: the newest tab makes room, the one just opened
Newest(seq) == seq[CHOOSE i \in DOMAIN seq :
                     seq[i] # Home /\ \A k \in (i + 1)..Len(seq) : seq[k] = Home]

Oldest(seq) == seq[CHOOSE i \in DOMAIN seq :
                     seq[i] # Home /\ \A k \in 1..(i - 1) : seq[k] = Home]

openTab(seq, p) ==
  IF p \in {seq[i] : i \in DOMAIN seq} THEN seq
  ELSE LET longer == Append(seq, p) IN
       IF Len(longer) > MAX_TABS THEN Without(longer, Oldest(longer)) ELSE longer

\* The tab to show once tab p is closed.
Neighbour(p) ==
  LET rest == Without(tabs, p)
      i == IndexOf(p)
  IN  rest[IF i < Len(rest) THEN i ELSE Len(rest)]

tabStep(direction) == tabs[((IndexOf(path) - 1 + direction) % Len(tabs)) + 1]

(***************************************************************************)
(* Keyboard                                                                *)
(***************************************************************************)
Security == {"lock", "panic", "logout", "mute"}
Keys == Security \cup {"help", "escape", "nav", "tabs", "hud", "page"}

pageBindings == IF path = MapPath THEN {"page", "hud", "escape"} ELSE {"page"}

overlayOpen == "help" \in covers \/ "modal" \in covers

\* Mutant of activeBindings: an overlay below the panic view takes its keys
OverlayFirst ==
  CASE session # "in" -> {}
    [] session = "in" /\ overlayOpen -> Security \cup {"help"}
    [] session = "in" /\ ~overlayOpen /\ "panic" \in covers -> Security \cup {"escape"}
    [] OTHER -> Keys \ {"page"}

activeBindings ==
  CASE session # "in" -> {}
    [] session = "in" /\ "panic" \in covers -> Security \cup {"escape"}
    [] session = "in" /\ "panic" \notin covers /\ overlayOpen -> Security \cup {"help"}
    [] OTHER -> Keys \ {"page"}

dialogOpen == covers # {} \/ session = "locked"

\* The layer whose handler key k runs; a key typed into a field of the page goes
\* no further than the first layer that binds it, security keys excepted.
dispatch(k, inField) ==
  CASE ~dialogOpen /\ k \in pageBindings -> IF inField THEN "none" ELSE "page"
    [] (dialogOpen \/ k \notin pageBindings) /\ k \in activeBindings ->
         IF inField /\ k \notin Security THEN "none" ELSE "shell"
    [] OTHER -> "none"

\* A key the shell handles is kept from Radix, whose uppermost layer is closed
\* by any other Escape.
Uppermost == CASE "help" \in covers -> {"help"}
               [] "help" \notin covers /\ "modal" \in covers -> {"modal"}
               [] OTHER -> covers \cap {"dialog", "popover"}

(***************************************************************************)
(* Steps                                                                   *)
(***************************************************************************)
\* Another page is mounted, without the dialogs of the one before.
Navigate(p, seq) ==
  /\ path' = p
  /\ tabs' = openTab(seq, p)
  /\ covers' = IF p = path THEN covers ELSE covers \ {"dialog", "popover"}
  /\ UNCHANGED <<session, sidebar>>

Reachable == session = "in" /\ covers = {}

\* Links, the new tab menu, the search field and the tabs themselves.
Follow == Reachable /\ \E p \in Paths : Navigate(p, tabs)

\* The close button and the middle button, for any tab.
CloseTab(p) ==
  /\ Reachable /\ p \in Open \ {Home}
  /\ \/ p = path /\ Navigate(Neighbour(p), Without(tabs, p))
     \/ /\ p # path
        /\ tabs' = Without(tabs, p)
        /\ UNCHANGED <<path, covers, session, sidebar>>

Cover(c) == covers' = covers \cup {c} /\ UNCHANGED <<path, tabs, session, sidebar>>
Uncover(cs) == covers' = covers \ cs /\ UNCHANGED <<path, tabs, session, sidebar>>
Toggle(c) == IF c \in covers THEN Uncover({c}) ELSE Cover(c)
Lock == session' = "locked" /\ UNCHANGED <<path, tabs, covers, sidebar>>

togglePinned ==
  /\ sidebar' = [sidebar EXCEPT !.pinned = ~@, !.hover = FALSE]
  /\ UNCHANGED <<path, tabs, covers, session>>

\* logout only starts a call; mute and hud change preferences.
ShellKey(k) ==
  \/ k = "lock" /\ Lock
  \/ k = "panic" /\ Toggle("panic")
  \/ k = "help" /\ Toggle("help")
  \/ k = "escape" /\ Uncover({"panic"})
  \/ k = "nav" /\ ((\E p \in Paths : Navigate(p, tabs)) \/ togglePinned)
  \/ /\ k = "tabs"
     /\ \/ path # Home /\ Navigate(Neighbour(path), Without(tabs, path))
        \/ \E d \in {-1, 1} : Navigate(tabStep(d), tabs)

Press(k, inField) ==
  \/ dispatch(k, inField) = "shell" /\ ShellKey(k)
  \/ dispatch(k, inField) = "page" /\ k = "page" /\ (Cover("modal") \/ Cover("dialog"))
  \/ dispatch(k, inField) = "none" /\ k = "escape" /\ Uncover(Uppermost)

\* Buttons of the page and of the navbar, and the buttons of what covers them.
Click ==
  /\ session = "in"
  /\ \/ covers = {} /\ \E c \in Layers : Cover(c)
     \/ covers # {} /\ "panic" \notin covers /\ Uncover(Uppermost)
     \/ "panic" \in covers /\ Uncover({"panic"})

\* A double click on a feed of the panic view leaves for that camera's page.
PanicFeed(p) ==
  /\ session = "in" /\ "panic" \in covers
  /\ path' = p /\ tabs' = openTab(tabs, p)
  /\ covers' = covers \ (IF p = path THEN {"panic"} ELSE {"panic", "dialog", "popover"})
  /\ UNCHANGED <<session, sidebar>>

\* The timer of the idle lock, and the release of a lock key whose press the
\* browser kept.
IdleLocks == session = "in" /\ Lock

Unlocked ==
  /\ session = "locked"
  /\ session' = "in" /\ UNCHANGED <<path, tabs, covers, sidebar>>

SignedOutByCall ==
  /\ session # "out"
  /\ session' = "out"
  /\ covers' = covers \ {"panic", "modal", "dialog", "popover"}
  /\ UNCHANGED <<path, tabs, sidebar>>

\* The session ends by itself: nobody resets the store.
Expires ==
  /\ session # "out"
  /\ session' = "out"
  /\ covers' = covers \ {"dialog", "popover"}
  /\ UNCHANGED <<path, tabs, sidebar>>

\* Back to the page the session ended on.
SignsIn ==
  /\ session = "out"
  /\ session' = "in" /\ tabs' = openTab(tabs, path)
  /\ UNCHANGED <<path, covers, sidebar>>

\* Reload with any address: only what partialize keeps is left.
Reloads ==
  /\ \E p \in Paths : path' = p /\ tabs' = IF session = "out" THEN tabs ELSE openTab(tabs, p)
  /\ covers' = {}
  /\ sidebar' = [pinned |-> sidebar.pinned, hover |-> FALSE, timer |-> FALSE]
  /\ UNCHANGED session

PointerEnters ==
  /\ Reachable /\ ~sidebar.pinned /\ ~sidebar.hover
  /\ sidebar' = [sidebar EXCEPT !.timer = TRUE]
  /\ UNCHANGED <<path, tabs, covers, session>>

HoverTimer ==
  /\ sidebar.timer
  /\ sidebar' = [sidebar EXCEPT !.timer = FALSE, !.hover = TRUE]
  /\ UNCHANGED <<path, tabs, covers, session>>

PointerLeaves ==
  /\ Reachable
  /\ sidebar' = [sidebar EXCEPT !.timer = FALSE, !.hover = @ /\ sidebar.pinned]
  /\ UNCHANGED <<path, tabs, covers, session>>

PinButton == Reachable /\ togglePinned

ShellInit ==
  /\ path \in Paths /\ tabs = <<Home>> /\ covers = {} /\ session = "out"
  /\ sidebar = [pinned |-> FALSE, hover |-> FALSE, timer |-> FALSE]

ShellNext ==
  \/ \E k \in Keys, inField \in BOOLEAN : Press(k, inField)
  \/ Follow \/ Click \/ IdleLocks \/ Unlocked \/ SignedOutByCall \/ Expires
  \/ SignsIn \/ Reloads
  \/ \E p \in Paths : CloseTab(p) \/ PanicFeed(p)
  \/ PointerEnters \/ HoverTimer \/ PointerLeaves \/ PinButton

(***************************************************************************)
(* Properties                                                              *)
(***************************************************************************)
\* Whatever is opened, closed, stepped through or restored, the strip has the
\* dashboard first, no page twice, no more than its limit, and a signed-in
\* operator is always on one of its tabs: making room never takes that one.
TabsSound ==
  /\ tabs[1] = Home /\ Len(tabs) <= MAX_TABS
  /\ \A i, k \in DOMAIN tabs : tabs[i] = tabs[k] => i = k
  /\ session # "out" => path \in Open

\* Under any pile of layers no page shortcut acts behind a cover, nothing acts
\* behind the lock, the security keys work everywhere else, text fields
\* included, and the panic view has its way out (AppShell.tsx:100, :162,
\* useKeyboard.ts:113).
KeysLayered ==
  \A k \in Keys, inField \in BOOLEAN :
    /\ dialogOpen => dispatch(k, inField) # "page"
    /\ session = "locked" => dispatch(k, inField) = "none"
    /\ session = "in" /\ k \in Security => dispatch(k, inField) = "shell"
    /\ session = "in" /\ "panic" \in covers /\ k = "escape" /\ ~inField =>
         dispatch(k, inField) = "shell"
=============================================================================
