------------------------------- MODULE Picker -------------------------------
(***************************************************************************)
(* The interactive picker (src/internal/tui/tui.go): the list of sessions,  *)
(* its cursor, search, groups and provider filter, the two-press delete and *)
(* conversion, and the background commands that read and change the stores. *)
(*                                                                         *)
(* Keys and messages are handled one at a time (Bubble Tea's Update).  A    *)
(* command runs in a goroutine of its own and sends one message when it is  *)
(* done; what it was given when it started may be out of date by then.  The *)
(* list widget searches the same way.  The stores belong to other programs, *)
(* which add and remove sessions at any time.                               *)
(*                                                                         *)
(* A list item is a session or the folder of a group header.  All items are *)
(* on one page.  Layout, the preview column, the help overlay and the yolo  *)
(* switch are left out: nothing else depends on them.                       *)
(***************************************************************************)
EXTENDS Naturals, Sequences, FiniteSets, SequencesExt

CONSTANTS
    Order,      \* every session there may be, newest first
    Folders,    \* workspaces
    FolderOf,   \* the workspace of a session
    ProviderOf, \* the agent of a session
    Accepting,  \* the providers in order that can be converted to
    Queries,    \* what can be searched for; "" finds everything
    Matches,    \* the sessions that contain all words of a query
    Scopes,     \* number of hand-off scopes
    MaxSearches,\* bound: searches of the list widget under way
    MaxOutside, \* bound: changes to the stores by other programs
    None

Sessions == Range(Order)
Providers == {ProviderOf[s] : s \in Sessions}

ASSUME PickerAssumption ==
    /\ Order \in Seq(Sessions)
    /\ FolderOf \in [Sessions -> Folders]
    /\ Accepting \in Seq(Providers)
    /\ Matches \in [Queries -> SUBSET Sessions]
    /\ "" \in Queries /\ Matches[""] = Sessions
    /\ Scopes \in Nat \ {0} /\ MaxOutside \in Nat
    /\ Sessions \cap Folders = {}
    /\ None \notin Sessions \cup Folders \cup Providers

VARIABLES
    disk,       \* sessions in the stores
    past,       \* history: sessions removed from the stores, for ever
    outside,    \* changes by other programs so far
    rows,       \* allRows
    enabled,    \* the providers that are on in the provider filter
    collapsed,  \* collapsedGroups
    search,     \* the list's filter state: "off", "typing" or "applied"
    query,      \* the text of the search
    items,      \* the list's items
    found,      \* filteredItems: what the last finished search found
    searches,   \* results of searches that the list has not been told yet
    cursor,     \* the list's index, from 1
    armed,      \* deleteArmed
    strayed,    \* history: the cursor was off the armed row since it was armed
    pending,    \* pendingConvert
    target,     \* handoffTarget
    scope,      \* handoff
    mode,       \* what the keys go to
    busy,       \* the action in progress
    keep,       \* rescanRow
    chosen,     \* compoundRow, then the row of the selection
    running,    \* background commands that have not finished
    inbox,      \* their messages that have not been handled
    gone        \* history: sessions the picker was told it deleted

storeVars == <<disk, past, outside>>
listVars == <<search, query, items, found, searches>>
handoffVars == <<pending, target, scope>>
commandVars == <<busy, running, inbox, gone>>
vars == <<storeVars, rows, enabled, collapsed, listVars, cursor, armed,
          strayed, handoffVars, mode, keep, chosen, commandVars>>

Conversions == [row : Sessions, to : Providers, scope : 0..Scopes - 1]
Commands ==
    [kind : {"load", "rescan"}]
      \cup [kind : {"delete", "branch"}, row : Sessions]
      \cup [kind : {"preview", "conversion"}, plan : Conversions]
Messages ==
    [kind : {"load", "rescan"}, rows : SUBSET Sessions]
      \cup [kind : {"delete", "mutation"}, row : Sessions, ok : BOOLEAN]
      \cup [kind : {"preview"}, plan : Conversions, ok : BOOLEAN]

StoreType ==
    /\ disk \in SUBSET Sessions /\ past \in SUBSET Sessions
    /\ outside \in 0..MaxOutside

FilterType ==
    /\ rows \in SUBSET Sessions
    /\ enabled \in SUBSET Providers
    /\ collapsed \in SUBSET Folders

ListType ==
    /\ search \in {"off", "typing", "applied"}
    /\ query \in Queries
    /\ items \in Seq(Sessions \cup Folders)
    /\ found \in Seq(Sessions)
    /\ searches \in SUBSET Seq(Sessions)

HandoffType ==
    /\ armed \in Sessions \cup {None}
    /\ strayed \in BOOLEAN
    /\ pending \in Conversions \cup {None}
    /\ target \in Providers \cup {None}
    /\ scope \in 0..Scopes - 1

CommandType ==
    /\ mode \in {"loading", "browsing", "choosing", "importing", "quit"}
    /\ busy \in {"", "rescan", "preview", "conversion", "branch", "delete"}
    /\ keep \in Sessions \cup {None}
    /\ chosen \in Sessions \cup {None}
    /\ running \in SUBSET Commands
    /\ inbox \in SUBSET Messages
    /\ gone \in SUBSET Sessions

TypeOK ==
    /\ StoreType /\ FilterType /\ ListType /\ HandoffType /\ CommandType
    /\ cursor \in Nat \ {0}

-----------------------------------------------------------------------------
(* filterRows *)
Listed == {s \in rows : ProviderOf[s] \in enabled}

Rank(s) == CHOOSE i \in DOMAIN Order : Order[i] = s

(* The elements of a sequence that are in S, in their order (SelectSeq, of   *)
(* which the provers know no definition).                                   *)
Only(seq, S) ==
    FlattenSeq([i \in DOMAIN seq |->
                   IF seq[i] \in S THEN <<seq[i]>> ELSE <<>>])

(* The sessions of S, newest first. *)
Sorted == [S \in SUBSET Sessions |-> Only(Order, S)]

(* groupedItems: a header for each workspace, in the order of their newest  *)
(* listed sessions, and below it its sessions unless it is collapsed.       *)
Group(f, listed, closed) ==
    <<f>> \o IF f \in closed THEN <<>>
             ELSE Sorted[{s \in listed : FolderOf[s] = f}]

Newest(listed) ==
    {s \in listed : \A t \in listed :
        FolderOf[t] = FolderOf[s] => Rank(s) <= Rank(t)}

GroupedItems(listed, closed) ==
    LET newest == Sorted[Newest(listed)]
    IN  FlattenSeq([i \in DOMAIN newest |->
                       Group(FolderOf[newest[i]], listed, closed)])

(* flatItems *)
FlatItems(listed) == Sorted[listed]

(* currentItems *)
CurrentItems == IF search = "off" THEN GroupedItems(Listed, collapsed)
                ELSE FlatItems(Listed)

(* External: VisibleItems of the list. *)
Shown == IF search = "off" THEN items ELSE found

(* SelectedItem *)
Selected == IF cursor \in DOMAIN Shown THEN Shown[cursor] ELSE None

ProvidersOf(S) == {ProviderOf[s] : s \in S}

-----------------------------------------------------------------------------
(* Where the cursor goes in the list. *)
Places(shown) == {i \in DOMAIN shown : shown[i] \in Sessions}
Least(S) == CHOOSE i \in S : \A j \in S : i <= j
Greatest(S) == CHOOSE i \in S : \A j \in S : i >= j

(* selectFirstSession *)
FirstSession(shown) ==
    IF Places(shown) = {} THEN cursor ELSE Least(Places(shown))

(* rowItemIndex, selectHeaderItem *)
IndexOf(shown, x, fallback) ==
    IF \E i \in DOMAIN shown : shown[i] = x
    THEN CHOOSE i \in DOMAIN shown : shown[i] = x ELSE fallback

(* selectRowItem *)
PlaceOf(shown, s) == IndexOf(shown, s, FirstSession(shown))

(* Wrong on purpose: the item now at the index, be it a header. *)
NearestItem(shown, index) ==
    CASE shown = <<>> -> cursor
      [] shown # <<>> /\ index > Len(shown) -> Len(shown)
      [] OTHER -> index

(* selectNearestSession: the first session from index on, else the last one *)
(* before it, else where the index is.                                      *)
NearestSession(shown, index) ==
    LET at == IF index > Len(shown) THEN Len(shown) ELSE index
        after == {i \in Places(shown) : i >= at}
    IN  CASE shown = <<>> -> cursor
          [] shown # <<>> /\ after # {} -> Least(after)
          [] shown # <<>> /\ after = {} /\ Places(shown) # {} ->
                Greatest(Places(shown))
          [] OTHER -> at

(* External: the search of the list, over its items. *)
Search(all, words) == Only(all, Matches[words])

(* SetItems(currentItems), to be used after what the items depend on.       *)
(* External: a search in progress starts again, and shows nothing until it  *)
(* is done.                                                                 *)
SetItems ==
    /\ items' = CurrentItems'
    /\ IF search' = "off" THEN searches' = searches /\ found' = <<>>
       ELSE found' = <<>> /\ searches' = searches \cup {Search(items', query')}

(* External: resetFiltering of the list. *)
ResetFilter == search' = "off" /\ query' = ""

KeepFilter == search' = search /\ query' = query

(* Wrong on purpose: a group that is gone stays collapsed. *)
NotPruned(folders) == folders

(* pruneCollapsedGroups *)
Pruned(folders) == folders \cap {FolderOf[s] : s \in Listed'}

(* reconcileDeleteArm and reconcilePendingConversion, after an update. *)
ReconcileDeleteArm == armed' = IF armed = Selected' THEN armed ELSE None
ReconcilePending ==
    pending' = IF pending # None /\ pending.row = Selected'
               THEN pending ELSE None
Reconcile == ReconcileDeleteArm /\ ReconcilePending /\ UNCHANGED <<target, scope>>

-----------------------------------------------------------------------------
Init ==
    /\ disk \in SUBSET Sessions
    /\ past = {}
    /\ outside = 0
    /\ rows = {}
    /\ enabled = {}
    /\ collapsed = {}
    /\ search = "off" /\ query = ""
    /\ items = <<>> /\ found = <<>> /\ searches = {}
    /\ cursor = 1
    /\ armed = None /\ strayed = FALSE
    /\ pending = None /\ target = None /\ scope = 0
    /\ mode = "loading"
    /\ busy = ""
    /\ keep = None
    /\ chosen = None
    /\ running = {[kind |-> "load"]}
    /\ inbox = {}
    /\ gone = {}

Browsing == mode = "browsing" /\ search # "typing"
Idle == Browsing /\ busy = ""

(* startMutation and the commands like it. *)
Start(command) ==
    /\ busy' = command.kind
    /\ running' = running \cup {command}
    /\ UNCHANGED <<inbox, gone>>

-----------------------------------------------------------------------------
(* Keys of the list: the cursor moves. *)
Browse ==
    /\ Idle
    /\ cursor' \in DOMAIN Shown
    /\ UNCHANGED <<storeVars, rows, enabled, collapsed, listVars, mode, keep,
                   chosen, commandVars>>
    /\ Reconcile

(* toggleGroup, by enter or space on a header. *)
ToggleGroup ==
    /\ Idle
    /\ Selected \in Folders
    /\ collapsed' = IF Selected \in collapsed THEN collapsed \ {Selected}
                    ELSE collapsed \cup {Selected}
    /\ UNCHANGED <<rows, enabled, search, query>>
    /\ SetItems
    /\ cursor' = IndexOf(Shown', Selected, cursor)
    /\ UNCHANGED <<storeVars, armed, handoffVars, mode, keep, chosen,
                   commandVars>>

(* toggleProvider: the last provider stays on. *)
ToggleProvider(p) ==
    /\ Idle
    /\ p \in ProvidersOf(rows)
    /\ pending' = None
    /\ UNCHANGED <<storeVars, rows, armed, target, scope, mode, keep, chosen,
                   commandVars>>
    /\ IF enabled = {p} THEN UNCHANGED <<enabled, collapsed, listVars, cursor>>
       ELSE /\ enabled' = IF p \in enabled THEN enabled \ {p}
                          ELSE enabled \cup {p}
            /\ collapsed' = Pruned(collapsed)
            /\ UNCHANGED <<search, query>>
            /\ SetItems
            /\ cursor' = FirstSession(Shown')

-----------------------------------------------------------------------------
(* "/": the flat list of all sessions, from its top.  A search that is      *)
(* already applied is edited.                                               *)
OpenSearch ==
    /\ Idle
    /\ pending' = None
    /\ IF Listed = {} THEN UNCHANGED <<listVars, cursor>>
       ELSE /\ search' = "typing"
            /\ query' = query
            /\ items' = FlatItems(Listed)
            /\ IF search = "off"
               THEN found' = items' /\ searches' = searches
               ELSE /\ found' = <<>>
                    /\ searches' = searches \cup {Search(items', query)}
            /\ cursor' = 1
    /\ UNCHANGED <<storeVars, rows, enabled, collapsed, armed, target, scope,
                   mode, keep, chosen, commandVars>>

TypeSearch ==
    /\ mode = "browsing" /\ search = "typing"
    /\ Cardinality(searches) < MaxSearches
    /\ query' \in Queries \ {query}
    /\ searches' = searches \cup {Search(items, query')}
    /\ UNCHANGED <<storeVars, rows, enabled, collapsed, search, items, found,
                   cursor, mode, keep, chosen, commandVars>>
    /\ Reconcile

AcceptSearch ==
    /\ mode = "browsing" /\ search = "typing"
    /\ query # "" /\ found # <<>>
    /\ search' = "applied"
    /\ UNCHANGED <<storeVars, rows, enabled, collapsed, query, items, found,
                   searches, cursor, mode, keep, chosen, commandVars>>
    /\ Reconcile

(* Wrong on purpose: the items stay those of the search. *)
LeaveSearchFlat ==
    /\ ResetFilter
    /\ UNCHANGED <<rows, enabled, collapsed, items, searches>>
    /\ found' = <<>>
    /\ cursor' = IF Selected \in Sessions THEN PlaceOf(Shown', Selected)
                 ELSE cursor

(* Back to the groups, on the session that was selected: esc while typing,  *)
(* or enter when nothing is found.                                          *)
LeaveSearch ==
    /\ ResetFilter
    /\ UNCHANGED <<rows, enabled, collapsed>>
    /\ SetItems
    /\ cursor' = IF Selected \in Sessions THEN PlaceOf(Shown', Selected)
                 ELSE cursor

CancelSearch ==
    /\ mode = "browsing" /\ search = "typing"
    /\ LeaveSearch
    /\ UNCHANGED <<storeVars, mode, keep, chosen, commandVars>>
    /\ Reconcile

(* esc with results on the screen, also during an action. *)
ClearSearch ==
    /\ Browsing /\ search = "applied"
    /\ LeaveSearch
    /\ UNCHANGED <<storeVars, handoffVars, mode, keep, chosen, commandVars>>
    /\ ReconcileDeleteArm

(* esc: one layer at a time. *)
Esc ==
    /\ Browsing /\ search = "off"
    /\ armed # None \/ pending # None
    /\ armed' = None
    /\ pending' = IF armed # None THEN pending ELSE None
    /\ UNCHANGED <<storeVars, rows, enabled, collapsed, listVars, cursor,
                   target, scope, mode, keep, chosen, commandVars>>

(* External: a search of the list is done.  Results come in any order, and  *)
(* while the import wizard is open they are lost.                           *)
SearchDone ==
    /\ mode # "quit"
    /\ \E result \in searches :
          /\ searches' = searches \ {result}
          /\ found' = IF mode = "importing" \/ search = "off" THEN found
                      ELSE result
    /\ UNCHANGED <<storeVars, rows, enabled, collapsed, search, query, items,
                   cursor, mode, keep, chosen, commandVars>>
    /\ IF mode = "importing" THEN UNCHANGED <<armed, handoffVars>>
       ELSE Reconcile

(* Any other message goes to the list too: a status line timed out. *)
StatusTimeout ==
    /\ mode \in {"browsing", "choosing", "loading"}
    /\ UNCHANGED <<storeVars, rows, enabled, collapsed, listVars, cursor,
                   mode, keep, chosen, commandVars>>
    /\ Reconcile

-----------------------------------------------------------------------------
(* selectResume, and the compound chooser: the picker ends with a session. *)
Resume ==
    /\ Idle
    /\ Selected \in Sessions
    /\ chosen' = Selected
    /\ mode' = "quit"
    /\ UNCHANGED <<storeVars, rows, enabled, collapsed, listVars, cursor,
                   armed, handoffVars, keep, commandVars>>

Compound ==
    /\ Idle
    /\ Selected \in Sessions
    /\ chosen' = Selected
    /\ mode' = "choosing"
    /\ UNCHANGED <<storeVars, rows, enabled, collapsed, listVars, cursor,
                   armed, handoffVars, keep, commandVars>>

StartCompound ==
    /\ mode = "choosing"
    /\ mode' = "quit"
    /\ UNCHANGED <<storeVars, rows, enabled, collapsed, listVars, cursor,
                   armed, handoffVars, keep, chosen, commandVars>>

CancelCompound ==
    /\ mode = "choosing"
    /\ mode' = "browsing"
    /\ chosen' = None
    /\ UNCHANGED <<storeVars, rows, enabled, collapsed, listVars, cursor,
                   armed, handoffVars, keep, commandVars>>

(* ctrl+c at any time, q unless it is text.  Commands die with the program. *)
Quit ==
    /\ mode # "quit"
    /\ mode' = "quit"
    /\ chosen' = None
    /\ running' = {} /\ inbox' = {} /\ busy' = ""
    /\ UNCHANGED <<storeVars, rows, enabled, collapsed, listVars, cursor,
                   armed, handoffVars, keep, gone>>

-----------------------------------------------------------------------------
(* handoffCandidates, handoffTargetFor *)
Candidates(s) == Only(Accepting, Providers \ {ProviderOf[s]})

TargetFor(s) ==
    IF Contains(Candidates(s), target) THEN target ELSE Head(Candidates(s))

CycleTarget ==
    /\ Idle
    /\ pending' = None
    /\ IF Selected \notin Sessions \/ Candidates(Selected) = <<>>
       THEN UNCHANGED target
       ELSE LET all == Candidates(Selected)
                at == CHOOSE i \in DOMAIN all : all[i] = TargetFor(Selected)
            IN  target' = all[(at % Len(all)) + 1]
    /\ UNCHANGED <<storeVars, rows, enabled, collapsed, listVars, cursor,
                   armed, scope, mode, keep, chosen, commandVars>>

(* Wrong on purpose: the scope does not start over. *)
CycleScopeOn ==
    /\ Idle
    /\ pending' = None
    /\ scope' = scope + 1
    /\ UNCHANGED <<storeVars, rows, enabled, collapsed, listVars, cursor,
                   armed, target, mode, keep, chosen, commandVars>>

(* Wrong on purpose: the scope can be changed during an action. *)
CycleScopeAnytime ==
    /\ Browsing
    /\ pending' = None
    /\ scope' = (scope + 1) % Scopes
    /\ UNCHANGED <<storeVars, rows, enabled, collapsed, listVars, cursor,
                   armed, target, mode, keep, chosen, commandVars>>

CycleScope ==
    /\ Idle
    /\ pending' = None
    /\ scope' = (scope + 1) % Scopes
    /\ UNCHANGED <<storeVars, rows, enabled, collapsed, listVars, cursor,
                   armed, target, mode, keep, chosen, commandVars>>

(* startConvert: the first press previews, the second one converts. *)
Convert ==
    /\ Idle
    /\ Selected \in Sessions
    /\ Candidates(Selected) # <<>>
    /\ LET plan == [row |-> Selected, to |-> TargetFor(Selected),
                    scope |-> scope]
       IN  Start([kind |-> IF pending = plan THEN "conversion" ELSE "preview",
                  plan |-> plan])
    /\ UNCHANGED <<storeVars, rows, enabled, collapsed, listVars, cursor,
                   armed, handoffVars, mode, keep, chosen>>

Branch ==
    /\ Idle
    /\ pending' = None
    /\ IF Selected \in Sessions
       THEN Start([kind |-> "branch", row |-> Selected])
       ELSE UNCHANGED commandVars
    /\ UNCHANGED <<storeVars, rows, enabled, collapsed, listVars, cursor,
                   armed, target, scope, mode, keep, chosen>>

(* startDelete *)
Delete ==
    /\ Idle
    /\ Selected \in Sessions
    /\ IF armed = Selected
       THEN armed' = None /\ Start([kind |-> "delete", row |-> Selected])
       ELSE armed' = Selected /\ UNCHANGED commandVars
    /\ UNCHANGED <<storeVars, rows, enabled, collapsed, listVars, cursor,
                   handoffVars, mode, keep, chosen>>

(* Wrong on purpose: a rescan can start during an action. *)
RescanAnytime ==
    /\ Browsing
    /\ Start([kind |-> "rescan"])
    /\ pending' = None
    /\ keep' = IF Selected \in Sessions THEN Selected ELSE None
    /\ UNCHANGED <<storeVars, rows, enabled, collapsed, listVars, cursor,
                   armed, target, scope, mode, chosen>>

Rescan ==
    /\ Idle
    /\ Start([kind |-> "rescan"])
    /\ pending' = None
    /\ keep' = IF Selected \in Sessions THEN Selected ELSE None
    /\ UNCHANGED <<storeVars, rows, enabled, collapsed, listVars, cursor,
                   armed, target, scope, mode, chosen>>

-----------------------------------------------------------------------------
(* Background commands. *)
Finish(command, message) ==
    /\ command \in running
    /\ running' = running \ {command}
    /\ inbox' = inbox \cup {message}
    /\ UNCHANGED <<rows, enabled, collapsed, listVars, cursor, armed,
                   handoffVars, mode, keep, chosen, busy, gone>>

(* session.Discover *)
RunDiscover ==
    \E command \in running :
        /\ command.kind \in {"load", "rescan"}
        /\ Finish(command, [kind |-> command.kind, rows |-> disk])
        /\ UNCHANGED storeVars

(* session.Delete *)
RunDelete ==
    \E command \in running, ok \in BOOLEAN :
        /\ command.kind = "delete"
        /\ Finish(command, [kind |-> "delete", row |-> command.row, ok |-> ok])
        /\ IF ok THEN /\ disk' = disk \ {command.row}
                      /\ past' = past \cup {command.row}
           ELSE UNCHANGED <<disk, past>>
        /\ UNCHANGED outside

(* session.PreviewConversion *)
RunPreview ==
    \E command \in running, ok \in BOOLEAN :
        /\ command.kind = "preview"
        /\ Finish(command, [kind |-> "preview", plan |-> command.plan,
                            ok |-> ok])
        /\ UNCHANGED storeVars

(* session.Convert and session.Branch.  A failed one may have written.      *)
Made(command) ==
    IF command.kind = "branch"
    THEN [from |-> command.row, to |-> ProviderOf[command.row]]
    ELSE [from |-> command.plan.row, to |-> command.plan.to]

RunMutation ==
    \E command \in running, s \in Sessions, ok \in BOOLEAN :
        /\ command.kind \in {"conversion", "branch"}
        /\ Finish(command, [kind |-> "mutation", row |-> s, ok |-> ok])
        /\ s \notin disk \cup past
        /\ ProviderOf[s] = Made(command).to
        /\ FolderOf[s] = FolderOf[Made(command).from]
        /\ disk' \in {disk \cup {s}} \cup IF ok THEN {} ELSE {disk}
        /\ UNCHANGED <<past, outside>>

MutationFails ==
    \E command \in running :
        /\ command.kind \in {"conversion", "branch"}
        /\ Finish(command, [kind |-> "mutation", row |-> Made(command).from,
                            ok |-> FALSE])
        /\ UNCHANGED storeVars

(* External: another program adds sessions or removes one. *)
Outside ==
    /\ outside < MaxOutside
    /\ outside' = outside + 1
    /\ \E s \in Sessions \ past :
          /\ disk' = IF s \in disk THEN disk \ {s} ELSE disk \cup {s}
          /\ past' = past \cup (disk \ disk')
    /\ UNCHANGED <<rows, enabled, collapsed, listVars, cursor, armed,
                   handoffVars, mode, keep, chosen, commandVars>>

-----------------------------------------------------------------------------
(* Messages of the commands. *)
(* Wrong on purpose: a failed action stays in progress. *)
HandleResult(message) ==
    /\ message \in inbox
    /\ inbox' = inbox \ {message}
    /\ busy' = IF message.kind = "delete" /\ ~message.ok THEN busy ELSE ""
    /\ UNCHANGED <<storeVars, target, scope, running, chosen>>

Handle(message) ==
    /\ message \in inbox
    /\ inbox' = inbox \ {message}
    /\ busy' = ""
    /\ UNCHANGED <<storeVars, target, scope, running, chosen>>

(* Wrong on purpose: the providers that are off stay off. *)
KeptFilter(all) ==
    {p \in ProvidersOf(all) : p \in enabled \/ p \notin ProvidersOf(rows)}

(* mergeProviderFilter: known providers keep their setting, new ones are    *)
(* on, and if all are off all are on.                                       *)
MergedFilter(all) ==
    LET on == {p \in ProvidersOf(all) :
                 p \in enabled \/ p \notin ProvidersOf(rows)}
    IN  IF on = {} THEN ProvidersOf(all) ELSE on

(* sessionsLoadedMsg *)
Loaded ==
    \E message \in inbox :
        /\ message.kind \in {"load", "rescan"}
        /\ Handle(message)
        /\ mode' = IF mode = "loading" THEN "browsing" ELSE mode
        /\ pending' = None
        /\ rows' = message.rows
        /\ enabled' = IF message.kind = "rescan" THEN MergedFilter(rows')
                      ELSE ProvidersOf(rows')
        /\ collapsed' = Pruned(collapsed)
        /\ KeepFilter
        /\ SetItems
        /\ cursor' = IF message.kind = "rescan" /\ keep # None
                     THEN PlaceOf(Shown', keep) ELSE FirstSession(Shown')
        /\ keep' = None
        /\ UNCHANGED <<armed, gone>>

(* Wrong on purpose: the new session's group stays as it is. *)
MutatedBelow ==
    \E message \in inbox :
        /\ message.kind = "mutation"
        /\ Handle(message)
        /\ armed' = None /\ pending' = None
        /\ IF message.ok
           THEN /\ enabled' = enabled \cup {ProviderOf[message.row]}
                /\ rows' = rows \cup {message.row}
                /\ ResetFilter
                /\ collapsed' = Pruned(collapsed)
                /\ SetItems
                /\ cursor' = PlaceOf(Shown', message.row)
           ELSE UNCHANGED <<rows, enabled, collapsed, listVars, cursor>>
        /\ UNCHANGED <<mode, keep, gone>>

(* applyMutation: the new session is shown whatever was filtered, searched  *)
(* or collapsed, and the cursor is on it.                                   *)
Mutated ==
    \E message \in inbox :
        /\ message.kind = "mutation"
        /\ Handle(message)
        /\ armed' = None /\ pending' = None
        /\ IF message.ok
           THEN /\ enabled' = enabled \cup {ProviderOf[message.row]}
                /\ rows' = rows \cup {message.row}
                /\ ResetFilter
                /\ collapsed' = Pruned(collapsed \ {FolderOf[message.row]})
                /\ SetItems
                /\ cursor' = PlaceOf(Shown', message.row)
           ELSE UNCHANGED <<rows, enabled, collapsed, listVars, cursor>>
        /\ UNCHANGED <<mode, keep, gone>>

(* applyDelete *)
Deleted ==
    \E message \in inbox :
        /\ message.kind = "delete"
        /\ Handle(message)
        /\ armed' = None
        /\ IF message.ok
           THEN /\ rows' = rows \ {message.row}
                /\ gone' = gone \cup {message.row}
                /\ enabled' = LET on == enabled \cap ProvidersOf(rows')
                              IN  IF on = {} THEN ProvidersOf(rows') ELSE on
                /\ collapsed' = Pruned(collapsed)
                /\ KeepFilter
                /\ SetItems
                /\ cursor' = NearestSession(Shown',
                                            IndexOf(Shown, message.row, cursor))
           ELSE UNCHANGED <<rows, enabled, collapsed, listVars, cursor, gone>>
        /\ UNCHANGED <<pending, mode, keep>>

(* applyConversionPreview *)
Previewed ==
    \E message \in inbox :
        /\ message.kind = "preview"
        /\ Handle(message)
        /\ pending' = IF message.ok THEN message.plan ELSE None
        /\ UNCHANGED <<rows, enabled, collapsed, listVars, cursor, armed,
                       mode, keep, gone>>

-----------------------------------------------------------------------------
(* The import wizard takes the keys until it is closed.  It ends with the   *)
(* session it made or extended in the list (applyImportApplied).            *)
OpenImport ==
    /\ Idle
    /\ mode' = "importing"
    /\ UNCHANGED <<storeVars, rows, enabled, collapsed, listVars, cursor,
                   armed, handoffVars, keep, chosen, commandVars>>

CloseImport ==
    /\ mode = "importing"
    /\ mode' = "browsing"
    /\ UNCHANGED <<storeVars, rows, enabled, collapsed, listVars, cursor,
                   armed, handoffVars, keep, chosen, commandVars>>

Imported(s) ==
    /\ mode = "importing"
    /\ s \notin past
    /\ disk' = disk \cup {s}
    /\ enabled' = enabled \cup {ProviderOf[s]}
    /\ collapsed' = collapsed \ {FolderOf[s]}
    /\ rows' = rows \cup {s}
    /\ ResetFilter
    /\ SetItems
    /\ cursor' = PlaceOf(Shown', s)
    /\ UNCHANGED <<past, outside, armed, handoffVars, mode, keep, chosen,
                   commandVars>>

KeyStep ==
    \/ Browse \/ ToggleGroup \/ \E p \in Providers : ToggleProvider(p)
    \/ OpenSearch \/ TypeSearch \/ AcceptSearch \/ CancelSearch \/ ClearSearch
    \/ Esc \/ Resume \/ Compound \/ StartCompound \/ CancelCompound \/ Quit
    \/ CycleTarget \/ CycleScope \/ Convert \/ Branch \/ Delete \/ Rescan

RunStep == RunDiscover \/ RunDelete \/ RunPreview \/ RunMutation \/ MutationFails
MessageStep == Loaded \/ Mutated \/ Deleted \/ Previewed
ImportStep == OpenImport \/ CloseImport \/ \E s \in Sessions : Imported(s)

Step ==
    \/ KeyStep \/ RunStep \/ MessageStep \/ ImportStep
    \/ SearchDone \/ StatusTimeout \/ Outside

Next ==
    /\ Step
    /\ strayed' = /\ armed' # None
                  /\ strayed \/ Selected' # armed'

Spec == Init /\ [][Next]_vars

(* A command ends, if only by its timeout, and Bubble Tea delivers its      *)
(* message.  Nothing is expected of the user.                               *)
FairSpec == Spec /\ WF_vars(RunStep /\ Next) /\ WF_vars(MessageStep /\ Next)

-----------------------------------------------------------------------------
(* Only one background command is ever under way, its message included, and  *)
(* none while keys act on the list or the import wizard is open: the row of  *)
(* a delete, a conversion or an import is the one on the screen when it ends *)
(* (the guard on busy, handleKey).                                           *)
OneCommand ==
    /\ Cardinality(running) + Cardinality(inbox) <= 1
    /\ busy = "" /\ mode # "loading" => running = {} /\ inbox = {}

(* A session that was deleted from the list never comes back into it, by a   *)
(* rescan that read the stores before or by a late message (applyDelete).    *)
NoGhost == rows \cap gone = {}

(* While there are sessions, some are listed: neither hiding providers, nor  *)
(* deleting the last session of one, nor a rescan after which only hidden    *)
(* ones are left, makes the list blank (toggleProvider, applyDelete,         *)
(* mergeProviderFilter: "so the list never goes permanently blank").         *)
NoBlankList == rows # {} => Listed # {}

(* The list widget always has the items that sessions, provider filter,      *)
(* collapsed groups and search ask for: no change of one of them forgets to  *)
(* rebuild it, or rebuilds it too early (currentItems, rebuildList).         *)
ListIsCurrent == items = CurrentItems

(* No workspace stays collapsed when its last listed session is gone, so the *)
(* next session there is not hidden from the start (pruneCollapsedGroups).   *)
CollapsedIsListed == collapsed \subseteq {FolderOf[s] : s \in Listed}

(* A preview on the screen is one for the target and the scope on the        *)
(* screen, however late it was finished: a second press cannot create what   *)
(* was not previewed (applyConversionPreview, startConvert).                 *)
PreviewIsCurrent ==
    pending # None =>
        pending.scope = scope /\ pending.to = TargetFor(pending.row)

(* The message handled in a step. *)
Handled == IF mode' = "quit" THEN {} ELSE inbox \ inbox'

(* A new session is selected when it is ready, whatever was hidden,          *)
(* collapsed or searched for meanwhile (applyMutation).                      *)
NewSessionSelected ==
    [][\A m \in Handled :
          m.kind = "mutation" /\ m.ok => Selected' = m.row]_vars

(* After a deletion the cursor is on a session, not on a header, as long as  *)
(* one is visible (applyDelete, selectNearestSession).                       *)
DeleteKeepsPlace ==
    [][\A m \in Handled :
          m.kind = "delete" /\ m.ok /\ Places(Shown') # {} =>
              Selected' \in Sessions]_vars

(* The picker does not stay busy for ever, whatever fails (busy).            *)
BusyEnds == busy # "" ~> busy = ""

(* tui.go:739-741: "clears a pending delete confirmation whenever the cursor *)
(* moves off the armed row, so the two-press safety can never be bypassed by *)
(* navigating away and back".                                                *)
TwoPressDelete ==
    [][\A command \in running' \ running :
          command.kind = "delete" => ~strayed]_vars

-----------------------------------------------------------------------------
(* The inductive invariant.  A command and its message exclude every other  *)
(* one, ...                                                                 *)
CommandInv ==
    /\ running = {} \/ inbox = {}
    /\ \A x, y \in running : x = y
    /\ \A x, y \in inbox : x = y
    /\ busy = "" /\ mode # "loading" => running = {} /\ inbox = {}

(* ... what was read from the stores or made in them was not deleted, ...   *)
GhostInv ==
    /\ gone \subseteq past
    /\ past \cap disk = {}
    /\ rows \cap gone = {}
    /\ \A m \in inbox :
          /\ m.kind \in {"load", "rescan"} => m.rows \cap gone = {}
          /\ m.kind = "mutation" /\ m.ok => m.row \notin gone
          /\ m.kind = "delete" /\ m.ok => m.row \in past

(* ... the provider filter has only providers that have sessions, ...       *)
FilterInv ==
    /\ enabled \subseteq ProvidersOf(rows)
    /\ rows # {} => enabled # {}

(* ... and a preview is made with the settings on the screen.  The list is  *)
(* what was asked for.                                                      *)
Current(plan) == plan.scope = scope /\ plan.to = TargetFor(plan.row)
PreviewInv ==
    /\ pending # None => Current(pending)
    /\ \A command \in running : command.kind = "preview" => Current(command.plan)
    /\ \A m \in inbox : m.kind = "preview" => Current(m.plan)

IInv ==
    /\ TypeOK
    /\ CommandInv /\ GhostInv /\ FilterInv /\ PreviewInv
    /\ ListIsCurrent /\ CollapsedIsListed
=============================================================================
