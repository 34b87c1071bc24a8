------------------------------ MODULE Consent ------------------------------
(***************************************************************************)
(* What a visitor allows to be tracked, in several tabs of one browser:    *)
(* the choices in localStorage and in each tab's ConsentProvider           *)
(* (frontend/src/providers/ConsentProvider.tsx), and the two SDKs that     *)
(* each tab starts and stops by them (components/legal/                    *)
(* GoogleAnalyticsScript.tsx, ClarityScript.tsx).                          *)
(*                                                                         *)
(* A write is seen at once by whoever reads, and announced to the other    *)
(* tabs later; effects run some time after the render that calls for them. *)
(***************************************************************************)
EXTENDS Integers

CONSTANTS
  Window,           \* tabs
  NoConsent, Never,
  MaxLoads,         \* bound: pages ever loaded
  MaxChoices,       \* bound: choices ever made
  MaxUnsaved        \* bound: writes that localStorage refuses

\* What gates GoogleAnalyticsScript, and what gates ClarityScript.
Categories == {"analytics", "sessionReplay"}

Choices == [Categories -> BOOLEAN]

\* What an SDK's effect goes by.
Seen == [allow: BOOLEAN, mounted: BOOLEAN]

ASSUME ConsentConstants ==
  NoConsent \notin Choices /\ Never \notin Seen /\ MaxLoads \in Nat /\ MaxChoices \in Nat /\ MaxUnsaved \in Nat

VARIABLES
  gpc,       \* navigator.globalPrivacyControl
  item,      \* what localStorage holds
  held,      \* the state of each tab's provider
  open,      \* tabs whose provider has hydrated
  told,      \* tabs a storage event is on its way to
  mounted,   \* scriptMounted of each tab's SDKs
  ran,       \* what their effects last saw: allow (previousAllowRef) and mounted
  tracking,  \* the SDK is loaded and records
  loads, choices, refused,
  unsaved,   \* history: the last choice was not stored
  asked      \* history: what the visitor has ever allowed

consentVars == <<gpc, item, held, open, told, mounted, ran, tracking, loads, choices, refused, unsaved, asked>>

ConsentTypeOK ==
  /\ gpc \in BOOLEAN /\ unsaved \in BOOLEAN
  /\ item \in Choices \cup {NoConsent}
  /\ held \in [Window -> Choices \cup {NoConsent}]
  /\ open \subseteq Window /\ told \subseteq Window /\ asked \subseteq Categories
  /\ mounted \in [Window -> Choices] /\ tracking \in [Window -> Choices]
  /\ ran \in [Window -> [Categories -> Seen \cup {Never}]]
  /\ loads \in 0..MaxLoads /\ choices \in 0..MaxChoices /\ refused \in 0..MaxUnsaved

Nothing == [c \in Categories |-> FALSE]

ConsentInit ==
  /\ gpc \in BOOLEAN
  /\ item = NoConsent
  /\ held = [w \in Window |-> NoConsent]
  /\ open = {} /\ told = {} /\ asked = {}
  /\ mounted = [w \in Window |-> Nothing]
  /\ tracking = [w \in Window |-> Nothing]
  /\ ran = [w \in Window |-> [c \in Categories |-> Never]]
  /\ loads = 0 /\ choices = 0 /\ refused = 0
  /\ unsaved = FALSE

-----------------------------------------------------------------------------

\* writeStorage: the others are told; where storage is not to be had, nobody is.
Write(w, c) ==
  \/ /\ item' = c
     /\ told' = told \cup (open \ {w})
     /\ unsaved' = FALSE
     /\ UNCHANGED refused
  \/ /\ refused < MaxUnsaved /\ refused' = refused + 1
     /\ unsaved' = TRUE
     /\ UNCHANGED <<item, told>>

\* The first effects of a page: the stored choice, or the browser's own signal.
Hydrate(w) ==
  /\ w \notin open
  /\ loads < MaxLoads /\ loads' = loads + 1
  /\ open' = open \cup {w}
  /\ IF item = NoConsent /\ gpc
     THEN held' = [held EXCEPT ![w] = Nothing] /\ Write(w, Nothing)
     ELSE held' = [held EXCEPT ![w] = item] /\ UNCHANGED <<item, told, unsaved, refused>>
  /\ UNCHANGED <<gpc, mounted, ran, tracking, choices, asked>>

\* setConsent, with both choices as banner, dialog and page all send it.
SetConsent(w) == \E c \in Choices :
  /\ w \in open
  /\ choices < MaxChoices /\ choices' = choices + 1
  /\ held' = [held EXCEPT ![w] = c]
  /\ Write(w, c)
  /\ asked' = asked \cup {k \in Categories : c[k]}
  /\ UNCHANGED <<gpc, open, mounted, ran, tracking, loads>>

\* onStorage reads what is stored by now.
OnStorage(w) ==
  /\ w \in told
  /\ held' = [held EXCEPT ![w] = item]
  /\ told' = told \ {w}
  /\ UNCHANGED <<gpc, item, open, mounted, ran, tracking, loads, choices, refused, unsaved, asked>>

allow(w, c) == held[w] # NoConsent /\ held[w][c]

sees(w, c) == [allow |-> allow(w, c), mounted |-> mounted[w][c]]

\* The dependencies of an SDK's effect changed since it ran.
Due(w, c) == w \in open /\ ran[w][c] # sees(w, c)

\* What the effect makes of what it sees: the first grant mounts the script, whose
\* code runs ahead of the next effect; a revocation stops it, a new grant resumes.
Effect(w, c, previous) ==
  LET now    == sees(w, c)
      starts == now.mounted /\ ~(ran[w][c] # Never /\ ran[w][c].mounted)
      on     == tracking[w][c] \/ starts
  IN  /\ Due(w, c)
      /\ mounted' = [mounted EXCEPT ![w][c] = @ \/ now.allow]
      /\ tracking' = [tracking EXCEPT ![w][c] =
           IF now.allow /\ ~now.mounted THEN on
           ELSE IF previous /\ ~now.allow THEN FALSE
           ELSE IF ~previous /\ ran[w][c] # Never /\ now.allow THEN TRUE
           ELSE on]
      /\ ran' = [ran EXCEPT ![w][c] = now]
      /\ UNCHANGED <<gpc, item, held, open, told, loads, choices, refused, unsaved, asked>>

\* Slip: the effect that mounts the script returns before it notes what it saw.
RunEffectReturning(w, c) == Effect(w, c, ran[w][c] # Never /\ ran[w][c].mounted /\ ran[w][c].allow)

RunEffect(w, c) == Effect(w, c, ran[w][c] # Never /\ ran[w][c].allow)

\* The tab is closed or loaded anew.
Close(w) ==
  /\ w \in open
  /\ open' = open \ {w} /\ told' = told \ {w}
  /\ held' = [held EXCEPT ![w] = NoConsent]
  /\ mounted' = [mounted EXCEPT ![w] = Nothing]
  /\ tracking' = [tracking EXCEPT ![w] = Nothing]
  /\ ran' = [ran EXCEPT ![w] = [c \in Categories |-> Never]]
  /\ UNCHANGED <<gpc, item, loads, choices, refused, unsaved, asked>>

ConsentNext == \E w \in Window :
  \/ Hydrate(w) \/ SetConsent(w) \/ OnStorage(w) \/ Close(w)
  \/ \E c \in Categories : RunEffect(w, c)

ConsentSpec == ConsentInit /\ [][ConsentNext]_consentVars

-----------------------------------------------------------------------------
(* Properties.                                                              *)

\* In no tab does an SDK record that the visitor never allowed; and once a tab has
\* handled what it was told, it records exactly what the visitor last allowed, in
\* whichever tab, unless that choice could not be stored.
TracksAsAllowed ==
  \A w \in open, c \in Categories :
    /\ tracking[w][c] => c \in asked
    /\ (w \notin told /\ ~Due(w, c) /\ ~unsaved) =>
         (tracking[w][c] <=> item # NoConsent /\ item[c])
=============================================================================
