-------------------------- MODULE SubscriptionHook --------------------------
(***************************************************************************)
(* The React bindings of the browser SDK (client/src/react.ts): a provider *)
(* that owns a client or passes one on, and a hook below it that renders   *)
(* one subscription.  React renders from the state of the moment (Render)  *)
(* and runs the effects of that commit later (Flush), every cleanup before *)
(* every mount and the hook, a child, before the provider.  What the       *)
(* application and the gateway do falls between any two of these steps.    *)
(*                                                                         *)
(* tree is everything the components, their effects and their clients hold *)
(* and an effect is an operator from tree to tree.                         *)
(***************************************************************************)
EXTENDS Integers, Sequences

CONSTANTS Client,      \* clients that can be created or supplied
          Supplied,    \* those an application that manages its own has
          Key,         \* identities: channel, version and param values
          Origin,      \* origins the provider's options can name
          NoClient, NoKey,
          MaxChanges,  \* bound: changes of props and closings by the application
          MaxBreaks    \* bound: losses of a live subscription

ASSUME HookAssumption ==
    /\ Supplied \subseteq Client
    /\ NoClient \notin Client /\ NoKey \notin Key
    /\ MaxChanges \in Nat /\ MaxBreaks \in Nat

VARIABLES owns,      \* the provider was given options (TRUE) or a client
          strict,    \* StrictMode: a first mount is mounted, cleaned up and mounted
          props,     \* what the application asks for now
          commit,    \* what the last render committed
          flushed,   \* the effects of commit have run
          screen,    \* what the last render showed: [state, sub]
          tree,
          changes, breaks
hookVars == <<owns, strict, props, commit, flushed, screen, tree, changes, breaks>>

Nothing == [state |-> "idle", sub |-> 0]
IDLE_VIEW == [client |-> NoClient, key |-> NoKey, state |-> "idle", sub |-> 0]
Unset == <<>>      \* the dependencies of an effect that has not run
Blank == [mounted |-> FALSE, origin |-> CHOOSE o \in Origin : TRUE, key |-> NoKey, client |-> NoClient]

(* States of a client and of its subscriptions, as the hook sees them.  A   *)
(* subscription the hook gave up is "unsubscribed", one that failed or whose *)
(* client was closed is "ended".                                            *)
Subscriptions == [client : Client, key : Key, state : {"opening", "live", "stale", "ended", "unsubscribed"}]

Ended(s) == s.state \in {"ended", "unsubscribed"}

(***************************************************************************)
(* Effects                                                                 *)
(***************************************************************************)

(* A listener of subscription n: setView(previous => ({...previous,        *)
(* ...change})).                                                           *)
Update(t, n, state) ==
    [t EXCEPT !.subs[n].state = state,
              !.view = IF t.current = n THEN [@ EXCEPT !.state = state, !.sub = n] ELSE @]

(* client.close(): its subscriptions end, and tell their listeners.        *)
CloseClient(t, c) ==
    LET ends(n) == t.subs[n].client = c /\ ~Ended(t.subs[n])
        told == t.current # 0 /\ ends(t.current)
    IN [t EXCEPT !.client[c] = "closed",
                 !.subs = [n \in DOMAIN @ |-> IF ends(n) THEN [@[n] EXCEPT !.state = "ended"] ELSE @[n]],
                 !.view = IF told THEN [@ EXCEPT !.state = "ended", !.sub = t.current] ELSE @]

(* The identity the hook's effect subscribes to in the commit just made.   *)
Deps == <<commit.client, commit.key>>

\* Mistake: the cleanup leaves the view as it is.
ForgetNothing(t, n) == t

ForgetView(t, n) ==
    IF t.view.client = t.subs[n].client /\ t.view.key = t.subs[n].key
    THEN [t EXCEPT !.view = IDLE_VIEW] ELSE t

HookCleanup(t) ==
    IF t.current = 0 THEN t
    ELSE ForgetView([t EXCEPT !.current = 0,
                              !.subs[t.current].state = IF @ = "ended" THEN @ ELSE "unsubscribed"], t.current)

HookMount(t) ==
    LET ran == [t EXCEPT !.hookDeps = Deps]
        n == Len(t.subs) + 1
    IN IF commit.client = NoClient \/ commit.key = NoKey THEN ran
       ELSE IF t.client[commit.client] = "closed" THEN ran
       ELSE [ran EXCEPT !.current = n,
                        !.subs = Append(@, [client |-> commit.client, key |-> commit.key, state |-> "opening"]),
                        !.view = [client |-> commit.client, key |-> commit.key, state |-> "opening", sub |-> n]]

(* The provider's effect creates the client that its cleanup closes.       *)
OwnerCleanup(t) ==
    IF t.made = NoClient THEN t
    ELSE CloseClient([t EXCEPT !.made = NoClient, !.owned = NoClient], t.made)

Fresh(t) == {c \in Client : t.client[c] = "none"}

OwnerMount(t) ==
    LET ran == [t EXCEPT !.ownerDeps = <<commit.origin>>]
        created == CHOOSE c \in Fresh(t) : TRUE
    IN IF owns THEN [ran EXCEPT !.made = created, !.owned = created, !.client[created] = "open"]
       ELSE ran

(* Which effects a commit re-runs.                                         *)
HookChanged == tree.hookDeps # Deps
OwnerChanged == tree.ownerDeps # <<commit.origin>>

Cleanups(t, hook, owner) ==
    LET u == IF hook THEN HookCleanup(t) ELSE t IN IF owner THEN OwnerCleanup(u) ELSE u

Mounts(t, hook, owner) ==
    LET u == IF hook THEN HookMount(t) ELSE t IN IF owner THEN OwnerMount(u) ELSE u

Unmounted(t) ==
    [Cleanups(t, TRUE, TRUE) EXCEPT !.view = IDLE_VIEW, !.hookDeps = Unset, !.ownerDeps = Unset]

(***************************************************************************)
(* React                                                                   *)
(***************************************************************************)

(* useOwnedClient's state, or the client the application supplied.         *)
Context == IF owns THEN tree.owned ELSE props.client

Wanted == [props EXCEPT !.client = IF props.mounted THEN Context ELSE NoClient]

Shows(c) ==
    IF /\ c.mounted /\ c.client # NoClient /\ c.key # NoKey
       /\ tree.view.client = c.client /\ tree.view.key = c.key
    THEN [state |-> tree.view.state, sub |-> tree.view.sub]
    ELSE Nothing

(* A render of the same props still shows what the state has become.       *)
Render ==
    /\ flushed
    /\ commit' = Wanted
    /\ screen' = Shows(Wanted)
    /\ flushed' = FALSE
    /\ UNCHANGED <<owns, strict, props, tree, changes, breaks>>

Flush ==
    /\ ~flushed
    /\ flushed' = TRUE
    /\ \/ /\ commit.mounted
          /\ strict => tree.hookDeps # Unset
          /\ tree' = Mounts(Cleanups(tree, HookChanged, OwnerChanged), HookChanged, OwnerChanged)
       \/ /\ commit.mounted /\ strict /\ tree.hookDeps = Unset
          /\ tree' = Mounts(Cleanups(Mounts(tree, TRUE, TRUE), TRUE, TRUE), TRUE, TRUE)
       \/ ~commit.mounted /\ tree' = Unmounted(tree)
    /\ UNCHANGED <<owns, strict, props, commit, screen, changes, breaks>>

(***************************************************************************)
(* The application and the gateway                                         *)
(***************************************************************************)

(* New props, several at once: a different user is another key of the      *)
(* provider, which unmounts and mounts it.  Each owned mount needs clients *)
(* the model still has.                                                    *)
Provide ==
    /\ changes < MaxChanges
    /\ \E m \in BOOLEAN, o \in IF owns THEN Origin ELSE {props.origin}, k \in Key \cup {NoKey},
          c \in IF owns THEN {NoClient} ELSE Supplied \cup {NoClient} :
          props' = [mounted |-> m, origin |-> o, key |-> k, client |-> c]
    /\ props' # props
    /\ changes' = changes + 1
    /\ UNCHANGED <<owns, strict, commit, flushed, screen, tree, breaks>>

(* The application closes a client of its own.                             *)
AppCloses(c) ==
    /\ ~owns /\ changes < MaxChanges /\ tree.client[c] = "open"
    /\ tree' = CloseClient(tree, c)
    /\ changes' = changes + 1
    /\ UNCHANGED <<owns, strict, props, commit, flushed, screen, breaks>>

(* A subscription reaches live with its first data, falls behind or fails. *)
GoesLive(n) ==
    /\ tree.subs[n].state \in {"opening", "stale"}
    /\ tree' = Update(tree, n, "live")
    /\ UNCHANGED <<owns, strict, props, commit, flushed, screen, changes, breaks>>

Breaks(n) ==
    /\ breaks < MaxBreaks /\ ~Ended(tree.subs[n])
    /\ \E state \in {"stale", "ended"} : tree' = Update(tree, n, state)
    /\ breaks' = breaks + 1
    /\ UNCHANGED <<owns, strict, props, commit, flushed, screen, changes>>

HookInit ==
    /\ owns \in BOOLEAN /\ strict \in BOOLEAN
    /\ props = Blank /\ commit = Blank /\ flushed = TRUE /\ screen = Nothing
    /\ tree = [client |-> [c \in Client |-> IF owns \/ c \notin Supplied THEN "none" ELSE "open"],
               made |-> NoClient, owned |-> NoClient, ownerDeps |-> Unset,
               subs |-> <<>>, current |-> 0, hookDeps |-> Unset,
               view |-> IDLE_VIEW]
    /\ changes = 0 /\ breaks = 0

HookNext ==
    \/ Render \/ Flush \/ Provide
    \/ \E c \in Client : AppCloses(c)
    \/ \E n \in DOMAIN tree.subs : GoesLive(n) \/ Breaks(n)

HookSpec == HookInit /\ [][HookNext]_hookVars
=============================================================================
