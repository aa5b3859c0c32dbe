--------------------------- MODULE DurableConfig ---------------------------
(***************************************************************************)
(* What lmon's configuration promises, without requests, maps, files and   *)
(* steps of a save: a configuration that runs, and the one the next start  *)
(* brings back.  A change touches what one request may touch.  A save      *)
(* replaces the durable configuration by an image of the running one; it   *)
(* may fail before that.  If it fails halfway, nothing of the older        *)
(* durable configuration is left: there is a part of the image, the        *)
(* defaults for the rest, and what the end of the text spoilt, or nothing  *)
(* that can be read.                                                       *)
(***************************************************************************)
CONSTANTS
    Keys,       \* the items a configuration can have
    Fold(_),    \* the key under which an item is kept
    Scopes,     \* what one change can touch: a set of keys, a set of keys
                \* whose windows it can touch, one of settings
    Ends,       \* what the end of a text can spoil: keys and settings
    Default,    \* the configuration of a first start
    None,       \* no item
    Down,       \* nothing runs
    Unreadable  \* no start is possible

VARIABLES
    running,  \* the configuration in effect, or Down
    durable,  \* what the next start brings up, or Unreadable
    saving    \* whether a save is under way
vars == <<running, durable, saving>>

RunningAs(r, k) == {j \in Keys : Fold(j) = k /\ r.items[j] # None}

\* An item of the durable configuration is that of a running one kept under its
\* key; of several, one, with the window of one.
Carried(d, r, k) ==
    LET same == RunningAs(r, k) IN
    IF same = {} THEN d.items[k] = None
    ELSE \E i, j \in same : d.items[k] = [r.items[i] EXCEPT !.window = r.items[j].window]

Image(d, r) == d.settings = r.settings /\ \A k \in Keys : Carried(d, r, k)

\* What is left of an image that was cut short: but for what the end of the text
\* spoilt, all is that of the image or the default.  No item comes from nowhere.
Remnant(d, r) ==
    LET spoilt == {k \in Keys : d.items[k] # Default.items[k] /\ ~Carried(d, r, k)}
        changed == {f \in DOMAIN r.settings :
                      d.settings[f] \notin {Default.settings[f], r.settings[f]}}
    IN /\ \E end \in Ends : spoilt \subseteq end.keys /\ changed \subseteq end.settings
       /\ \A k \in spoilt : d.items[k] # None =>
             Default.items[k] # None \/ RunningAs(r, k) # {}

Init == running = Down /\ durable # Unreadable /\ ~saving

Start == /\ ~saving
         /\ running = Down
         /\ durable # Unreadable
         /\ running' = durable
         /\ UNCHANGED <<durable, saving>>

Stop == /\ ~saving'
        /\ running # Down
        /\ running' = Down
        /\ UNCHANGED durable

\* From r to q nothing changes but what the scope names.
Within(scope, r, q) ==
    /\ \A k \in Keys \ scope.keys : q.items[k] = r.items[k]
    /\ \A k \in Keys \ scope.windows :
         r.items[k] # None /\ q.items[k] # None => q.items[k].window = r.items[k].window
    /\ \A f \in DOMAIN r.settings \ scope.settings : q.settings[f] = r.settings[f]

\* A request changes what it may; one that is refused is not saved.
Change(scope) ==
    /\ ~saving
    /\ running # Down /\ running' # Down
    /\ Within(scope, running, running')
    /\ saving' \in BOOLEAN
    /\ UNCHANGED durable

GiveUp == /\ saving
          /\ ~saving'
          /\ UNCHANGED <<running, durable>>

Commit == /\ saving
          /\ ~saving'
          /\ durable' # Unreadable
          /\ Image(durable', running)
          /\ UNCHANGED running

\* A save loses the durable configuration before it replaces it, or for good.
Lose == /\ saving
        /\ durable' = Unreadable \/ Remnant(durable', running)
        /\ saving' \in BOOLEAN
        /\ UNCHANGED running

Next == \/ Start
        \/ Stop
        \/ \E scope \in Scopes : Change(scope)
        \/ GiveUp
        \/ Commit
        \/ Lose

Spec == Init /\ [][Next]_vars
============================================================================
