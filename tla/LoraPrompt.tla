----------------------------- MODULE LoraPrompt -----------------------------
(***************************************************************************)
(* Which LoRAs the pod has loaded, and the prompt it encodes, against the    *)
(* toggles and the Prompt par of the operator.  A LoRA's style fires only    *)
(* if its trigger word leads the prompt, so the words of the enabled LoRAs   *)
(* are put in front of every prompt sent, after the words of any LoRA have   *)
(* been taken off (lora_triggers.py).                                        *)
(*                                                                         *)
(* A prompt is the sequence of its comma-separated tokens, up to case and    *)
(* blanks.  Promptb, which is treated as Prompt is, and the strengths, which *)
(* are ParamsStream's subject, are left out; a send while connected arrives. *)
(***************************************************************************)
EXTENDS Integers, Sequences, FiniteSets, SequencesExt

CONSTANTS
  Order,     \* the LoRAs of every pod, in catalog order
  Word,      \* [LoRA -> its primary trigger word]
  Catalogs,  \* the sets of LoRAs a pod may offer
  Defaults,  \* DEFAULT_ENABLED_LORAS
  Texts      \* what the operator may type

Loras == ToSet(Order)
None  == "no word"

ASSUME LoraAssumption ==
  /\ Order \in Seq(STRING) /\ IsInjective(Order) /\ Catalogs \subseteq SUBSET Loras
  /\ Word \in [Loras -> STRING \ {None}] /\ Texts \subseteq Seq(STRING)

VARIABLES
  ids,        \* the LoRAs in _lora_ids, which has them in the order of Order
  triggers,   \* _lora_triggers
  sig,        \* _lora_catalog_sig
  routed,     \* the LoRAs in _lora_par_to_id
  pars,       \* the LoRAs that have a Loraenable par, saved with the project
  on,         \* those whose toggle is on
  text,       \* the Prompt par
  prepend,    \* the Autoprependloratriggers par
  connected,  \* _connected
  pod,        \* the pod: the LoRAs loaded, its prompt, whether it was ready
  inStep      \* history: the pod's prompt was sent, and only toggles moved since

catalog == <<ids, triggers, sig, routed>>
knobs   == <<on, text, prepend>>
vars    == <<catalog, pars, knobs, connected, pod, inStep>>

NoPod == [loaded |-> {}, prompt |-> << >>, ready |-> FALSE]

TypeOK ==
  /\ ids \subseteq Loras /\ DOMAIN triggers = ids
  /\ \A l \in DOMAIN triggers : triggers[l] \in {None, Word[l]}
  /\ sig \in Catalogs \cup {{}} /\ routed \subseteq pars
  /\ on \subseteq pars /\ pars \subseteq Loras
  /\ text \in Texts /\ {prepend, connected, inStep} \subseteq BOOLEAN
  /\ pod \in [loaded : SUBSET Loras, prompt : Seq(STRING), ready : BOOLEAN]

\* A project that was saved keeps its pars; the catalog is learnt anew.
Init ==
  /\ ids = {} /\ triggers = << >> /\ sig = {} /\ routed = {}
  /\ pars \in {{}, Loras} /\ on \in SUBSET pars
  /\ text \in Texts /\ prepend = TRUE
  /\ connected = FALSE /\ pod = NoPod /\ inStep = FALSE

-----------------------------------------------------------------------------
(* lora_triggers.py.  w maps the LoRAs of the catalog s to their words.     *)

\* The words of the enabled ones, in catalog order, each once.
BuildTriggerPrefix(s, w, enabled, auto) ==
  LET words[i \in 0..Len(Order)] ==
        IF i = 0 THEN << >>
        ELSE LET l == Order[i] IN
             IF l \in s /\ l \in enabled /\ w[l] # None /\ w[l] \notin ToSet(words[i - 1])
             THEN Append(words[i - 1], w[l]) ELSE words[i - 1]
  IN IF auto THEN words[Len(Order)] ELSE << >>

CatalogTriggerWords(w) == {w[l] : l \in DOMAIN w} \ {None}

\* The leading tokens that are words of any LoRA are dropped.
StripLeadingTriggers(t, words) ==
  LET n == CHOOSE k \in 0..Len(t) :
             /\ \A i \in 1..k : t[i] \in words
             /\ k < Len(t) => t[k + 1] \notin words
  IN SubSeq(t, n + 1, Len(t))

Inject(t, s, w, enabled, auto) ==
  BuildTriggerPrefix(s, w, enabled, auto)
    \o StripLeadingTriggers(t, CatalogTriggerWords(w))

-----------------------------------------------------------------------------
(* The operator.                                                           *)

EnabledLoras == on \cap ids

EditPrompt(t) ==
  /\ text' = t /\ t # text /\ inStep' = FALSE
  /\ UNCHANGED <<catalog, pars, on, prepend, connected, pod>>

TogglePrepend ==
  /\ prepend' = ~prepend /\ inStep' = FALSE
  /\ UNCHANGED <<catalog, pars, on, text, connected, pod>>

\* The argument stands for the Prompt par; a script may pass another one.
SendPrompt(t) ==
  /\ connected
  /\ pod' = [pod EXCEPT !.prompt = Inject(t, ids, triggers, EnabledLoras, prepend)]
  /\ inStep' = (t = text)
  /\ UNCHANGED <<catalog, pars, knobs, connected>>

\* _resend_prompt_for_lora_change, with the toggles and the catalog as they are then.
Resent == Inject(text, ids', triggers', on' \cap ids', prepend)

\* OnParChange of a Loraenable par.  One that the catalog of this launch has not
\* named goes nowhere.  The mutated form does not send the prompt on disable.
ToggleLora_EnableOnly(l) ==
  /\ l \in pars /\ on' = IF l \in on THEN on \ {l} ELSE on \cup {l}
  /\ UNCHANGED <<catalog, pars, text, prepend, connected>>
  /\ IF connected /\ l \in routed
     THEN /\ pod' = [pod EXCEPT !.loaded = IF l \in on THEN @ \ {l} ELSE @ \cup {l},
                                !.prompt = IF l \in on THEN @ ELSE Resent]
          /\ inStep' = TRUE
     ELSE UNCHANGED <<pod, inStep>>

ToggleLora(l) ==
  /\ l \in pars /\ on' = IF l \in on THEN on \ {l} ELSE on \cup {l}
  /\ UNCHANGED <<catalog, pars, text, prepend, connected>>
  /\ IF connected /\ l \in routed
     THEN /\ pod' = [pod EXCEPT !.loaded = IF l \in on THEN @ \ {l} ELSE @ \cup {l},
                                !.prompt = Resent]
          /\ inStep' = TRUE
     ELSE UNCHANGED <<pod, inStep>>

\* The scripting calls send the message and leave toggle and prompt alone.
EnableLora(l) ==
  /\ connected /\ l \notin pod.loaded /\ pod' = [pod EXCEPT !.loaded = @ \cup {l}]
  /\ UNCHANGED <<catalog, pars, knobs, connected, inStep>>

DisableLora(l) ==
  /\ connected /\ l \in pod.loaded /\ pod' = [pod EXCEPT !.loaded = @ \ {l}]
  /\ UNCHANGED <<catalog, pars, knobs, connected, inStep>>

-----------------------------------------------------------------------------
(* The session.                                                            *)

\* build_session_config, as a pod takes it.  Its prompt t is the Initprompt par,
\* which has no other use, with no word added.
SessionConfig(t) == [loaded |-> EnabledLoras, prompt |-> t, ready |-> FALSE]

\* The config is built and, frames later, flushed; what may come between is
\* ParamsStream's subject.
Connect ==
  /\ ~connected /\ connected' = TRUE /\ sig' = {}
  /\ \E t \in Texts : pod' = SessionConfig(t)
  /\ inStep' = FALSE
  /\ UNCHANGED <<ids, triggers, routed, pars, knobs>>

Disconnect ==
  /\ connected /\ connected' = FALSE /\ pod' = NoPod /\ inStep' = FALSE
  /\ UNCHANGED <<catalog, pars, knobs>>

\* The pod offers the LoRAs of c, with the words of those in m.  A word once
\* learnt is kept for as long as its LoRA stays.  The mutated form keeps it longer.
LearnTriggers_KeepsAll(c, m) ==
  triggers' = [l \in c \cup DOMAIN triggers |->
                 IF l \in m THEN Word[l]
                 ELSE IF l \in DOMAIN triggers THEN triggers[l] ELSE None]

LearnTriggers(c, m) ==
  triggers' = [l \in c |-> IF l \in m THEN Word[l]
                           ELSE IF l \in DOMAIN triggers THEN triggers[l] ELSE None]

\* _apply_lora_catalog.  For a set of LoRAs not yet seen on this connection it makes
\* the pars that are missing; a default one is switched on, which is an OnParChange.
ApplyLoraCatalog(c, m) ==
  LET new      == c # sig
      switched == IF new THEN (Defaults \cap c) \ pars ELSE {}
  IN /\ ids' = c /\ LearnTriggers(c, m)
     /\ sig' = c /\ routed' = IF new THEN c ELSE routed
     /\ pars' = IF new THEN pars \cup c ELSE pars
     /\ on' = on \cup switched
     /\ pod' = [loaded |-> pod.loaded \cup switched, ready |-> TRUE,
                prompt |-> IF switched = {} THEN pod.prompt ELSE Resent]
     /\ inStep' = (switched # {} \/ (inStep /\ triggers' = triggers))
     /\ UNCHANGED <<text, prepend, connected>>

Ready(c, m) == connected /\ ~pod.ready /\ ApplyLoraCatalog(c, m)

\* An echo, on a change of state.
EvLoraCatalog(c, m) == connected /\ pod.ready /\ ApplyLoraCatalog(c, m)

Next ==
  \/ \E t \in Texts : EditPrompt(t) \/ SendPrompt(t)
  \/ TogglePrepend \/ Connect \/ Disconnect
  \/ \E l \in Loras : ToggleLora(l) \/ EnableLora(l) \/ DisableLora(l)
  \/ \E c \in Catalogs : \E m \in SUBSET c : Ready(c, m) \/ EvLoraCatalog(c, m)

Spec == Init /\ [][Next]_vars

-----------------------------------------------------------------------------
(* Properties *)

\* With the words put in automatically: once the prompt has been sent, and whatever
\* toggles move afterwards, the pod's prompt leads with the words of the enabled
\* LoRAs, each once and no other, and goes on with the operator's text less the
\* words it began with; so sending it again, from the prompt as sent, changes
\* nothing.  (inject, SendPrompt, _resend_prompt_for_lora_change, OnParChange)
PromptInStep ==
  inStep /\ prepend =>
    LET words  == CatalogTriggerWords(triggers)
        wanted == {triggers[l] : l \in EnabledLoras} \ {None}
        n      == Cardinality(wanted)
        rest   == SubSeq(pod.prompt, n + 1, Len(pod.prompt))
    IN /\ {pod.prompt[i] : i \in 1..n} = wanted
       /\ IsSuffix(rest, text) /\ (rest # << >> => Head(rest) \notin words)
       /\ \A i \in 1..(Len(text) - Len(rest)) : text[i] \in words
       /\ Inject(pod.prompt, ids, triggers, EnabledLoras, prepend) = pod.prompt

\* "Off = manual workflow, user includes triggers in Prompt/PromptB themselves"
\* (params.py:334-335; lora_triggers.py:18-20): then the pod gets what was typed.
\* Fails: the words that lead the text are taken off with auto-prepend off too,
\* which tests/test_lora_triggers.py:169-175 asks for.
OwnWordsKept == inStep /\ ~prepend => pod.prompt = text

\* "The user's saved toggle values are the source of truth" (demon_ext.py:3339): a
\* LoRA whose toggle is on has been loaded by the time its pod is ready.
\* (_enabled_loras, _build_session_config, _apply_lora_catalog)
SavedTogglesLoaded ==
  [][pod'.ready /\ ~pod.ready => EnabledLoras' \subseteq pod'.loaded]_vars
=============================================================================
