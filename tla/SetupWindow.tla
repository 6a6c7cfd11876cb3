---------------------------- MODULE SetupWindow ----------------------------
(***************************************************************************)
(* The setup window (setup_app.py) in the live session and the files that  *)
(* a save writes (hermes_setup.py, enrollment.py).  Everything but the     *)
(* voice worker runs in the GTK main loop; the worker hands its result to  *)
(* the loop, which applies it between any two actions of the user.         *)
(***************************************************************************)
EXTENDS Integers, Sequences

CONSTANTS
  Cloud,   \* providers that receive requests over the Internet
  NoCloud, \* the other ones: offline and local
  Offline, \* the provider that is selected first
  MaxSaves \* bound on saves that begin to write

Providers == Cloud \cup NoCloud

ASSUME SetupAssumption == Offline \in NoCloud /\ Cloud \cap NoCloud = {} /\ MaxSaves \in Nat

\* What stage_installer_configuration and stage_voice_pin write, in this order.
Hermes == <<"config.yaml", ".env", ".gpt-live.env">>
Staged(name) == <<"target-home", name>>
Live(name) == <<"home", name>>
Pin == <<"system", "voice-pin.json">>
Writes == << Staged(Hermes[1]), Staged(Hermes[2]), Staged(Hermes[3]),
             Live(Hermes[1]), Live(Hermes[2]), Live(Hermes[3]),
             <<"", "ready.json">>, Pin >>
Files == {Writes[i] : i \in DOMAIN Writes}

VARIABLES
  window,      \* "open", "saved" until it closes by itself, "closed"
  provider,    \* selected provider
  consent,     \* is the cloud consent checked?
  live,        \* is GPT Live checked?
  liveConsent, \* is its consent checked?
  spoken,      \* the PIN that was spoken twice: none, one that is too short or long, a good one
  worker,      \* is the voice worker running?
  file,        \* each file's content: the number of the save that wrote it, 0 if it is not there
  saves,       \* saves that began to write
  saved        \* the last one that was reported as saved, 0 if there is none

form == <<provider, consent, live, liveConsent, spoken>>
disk == <<file, saves, saved>>
setupVars == <<window, form, worker, disk>>

SetupInit ==
  /\ window = "open" /\ provider = Offline
  /\ consent = FALSE /\ live = FALSE /\ liveConsent = FALSE
  /\ spoken = "none" /\ worker = FALSE
  /\ file = [f \in Files |-> 0] /\ saves = 0 /\ saved = 0

Usable == window # "closed"

-----------------------------------------------------------------------------
(* The form. *)

\* Mutant: the consent survives the choice of a local provider.
SelectKeeping ==
  /\ Usable /\ provider' \in Providers
  /\ UNCHANGED <<window, consent, live, liveConsent, spoken, worker, disk>>

\* _provider_changed: without a cloud there is no consent to it; from one cloud
\* provider to another it stays.
Select ==
  /\ Usable /\ provider' \in Providers
  /\ consent' = (consent /\ provider' \in Cloud)
  /\ UNCHANGED <<window, live, liveConsent, spoken, worker, disk>>

\* The check buttons: each is sensitive only with what it is about.
ToggleConsent ==
  /\ Usable /\ provider \in Cloud /\ consent' = ~consent
  /\ UNCHANGED <<window, provider, live, liveConsent, spoken, worker, disk>>

ToggleLive ==
  /\ Usable /\ live' = ~live /\ liveConsent' = (liveConsent /\ live')
  /\ UNCHANGED <<window, provider, consent, spoken, worker, disk>>

ToggleLiveConsent ==
  /\ Usable /\ live /\ liveConsent' = ~liveConsent
  /\ UNCHANGED <<window, provider, consent, live, spoken, worker, disk>>

-----------------------------------------------------------------------------
(* The voice worker. *)

\* The button is insensitive until the worker is over; the rest of the form is not.
VoiceClicked ==
  /\ Usable /\ ~worker /\ worker' = TRUE
  /\ UNCHANGED <<window, form, disk>>

\* Speech that fails or does not answer clearly changes nothing.
VoiceFails ==
  /\ Usable /\ worker /\ worker' = FALSE
  /\ UNCHANGED <<window, form, disk>>

\* _apply_spoken_provider, over whatever the form says by now: provider, consent
\* to it and to GPT Live, and a PIN whose length nobody has looked at.
VoiceApplied ==
  /\ Usable /\ worker /\ worker' = FALSE
  /\ provider' \in Providers
  /\ \E yes \in BOOLEAN : consent' = (yes /\ provider' \in Cloud)
  /\ live' \in BOOLEAN /\ liveConsent' = live'
  /\ spoken' \in {"short", "good"}
  /\ UNCHANGED <<window, disk>>

-----------------------------------------------------------------------------
(* Saving. *)

\* _save_clicked and validate: the keys and a typed PIN, given twice, are in the
\* form or not; a spoken PIN takes precedence over what is typed.  A save that is
\* refused writes nothing.
MaySave(key, liveKey, typed) ==
  /\ provider \in Cloud => consent /\ key
  /\ live => liveConsent /\ liveKey
  /\ IF spoken = "none" THEN typed ELSE spoken = "good"

\* The first n files are replaced, one after another, by save s.
Replaced(n, s) == [f \in Files |-> IF \E i \in 1..n : Writes[i] = f THEN s ELSE file[f]]

\* save_setup_configuration: an OSError leaves the files written so far and the
\* form as it is; else the secrets and PINs are cleared and the window closes soon.
Save ==
  /\ Usable /\ saves < MaxSaves
  /\ \E key, liveKey, typed \in BOOLEAN : MaySave(key, liveKey, typed)
  /\ saves' = saves + 1
  /\ \E n \in 0..Len(Writes) :
       /\ file' = Replaced(n, saves')
       /\ IF n = Len(Writes)
            THEN window' = "saved" /\ saved' = saves' /\ spoken' = "none"
            ELSE UNCHANGED <<window, saved, spoken>>
  /\ UNCHANGED <<provider, consent, live, liveConsent, worker>>

\* 1.2 seconds after a save, or when the user closes it; the process ends, and
\* with it the worker and the form.
Close ==
  /\ Usable /\ window' = "closed"
  /\ provider' = Offline /\ consent' = FALSE /\ live' = FALSE /\ liveConsent' = FALSE
  /\ spoken' = "none" /\ worker' = FALSE
  /\ UNCHANGED disk

SetupNext ==
  \/ Select \/ ToggleConsent \/ ToggleLive \/ ToggleLiveConsent
  \/ VoiceClicked \/ VoiceFails \/ VoiceApplied \/ Save \/ Close

SetupSpec == SetupInit /\ [][SetupNext]_setupVars

-----------------------------------------------------------------------------
(* Properties. *)

\* Every variable keeps its type.
SetupTypeOK ==
  /\ window \in {"open", "saved", "closed"} /\ provider \in Providers
  /\ consent \in BOOLEAN /\ live \in BOOLEAN /\ liveConsent \in BOOLEAN
  /\ spoken \in {"none", "short", "good"} /\ worker \in BOOLEAN
  /\ file \in [Files -> 0..saves] /\ saves \in Nat /\ saved \in 0..saves

\* A consent is checked only together with what it is a consent to, in whatever
\* order the user's clicks and the worker's result arrive: no consent given for a
\* cloud provider or for GPT Live outlives the choice of a local provider or the
\* withdrawal of GPT Live, to be saved with a later choice.
ConsentIsCurrent == (consent => provider \in Cloud) /\ (liveConsent => live)
=============================================================================
