----------------------------- MODULE MCStreams ------------------------------
(* Small instances for TLC of what carries a session's output and the      *)
(* daemon's events: the scrollback, the event hub, the output sanitizer    *)
(* and the session manager. A behaviour is one of them (part) at work,     *)
(* with the others at rest.                                                *)
EXTENDS RingBuffer, EventHub, Sanitizer, Sessions

CONSTANTS open1, open2, openKey

VARIABLE part

(* Four alphabets: terminal controls with split runes, control strings,    *)
(* assignments, and lines that overflow.                                   *)
Controls == {"esc", "[", "]", "bel", "x", "st", "csi8", "lead", "cont"}
Assignments == {"t", "n", "=", "sp", "s", "x", "nl"}
Strings == {"esc", "P", "dcs8", "osc8", "st", "\\", "x"}
Lines == {"t", "n", "=", "nl"}
MCAlphabets == {Controls, Strings, Assignments, Lines}
MCMaxInput ==
    (Controls :> 4) @@ (Strings :> 5) @@ (Assignments :> 6) @@ (Lines :> 7)
MCSecret == <<"s", "s", "x">>

(* Two opens under one key.                                                *)
OneKey == (open1 :> openKey) @@ (open2 :> openKey)

MCInit == /\ part \in {"scrollback", "hub", "sanitizer", "sessions"}
          /\ Init /\ HubInit /\ SanitizerInit /\ SessionsInit
          /\ part # "sanitizer" => alphabet = Controls
          /\ part # "sessions" => mode = "calm"

MCNext ==
    \/ part = "scrollback" /\ Next /\ UNCHANGED <<hvars, svars, sessionVars, part>>
    \/ part = "hub" /\ HubNext /\ UNCHANGED <<vars, svars, sessionVars, part>>
    \/ part = "sanitizer" /\ SanitizerNext /\ UNCHANGED <<vars, hvars, sessionVars, part>>
    \/ part = "sessions" /\ SessionsNext /\ UNCHANGED <<vars, hvars, svars, part>>

MCSpec == MCInit /\ [][MCNext]_<<vars, hvars, svars, sessionVars, part>>
=============================================================================
