----------------------------- MODULE MCServices -----------------------------
(***************************************************************************)
(* What surrounds the scan, for TLC: the phone and its ADB forward, the    *)
(* launcher, the links and sessions of the web application, the cache of   *)
(* the url converter, the diagnostics of the databases and config.toml     *)
(* under the desktop form.  They share no state that their models keep:    *)
(* part says which of them a behaviour is of, and the others rest.         *)
(* WebAuth has two smaller instances: more failures without names and      *)
(* tokens, and names and tokens with one failure.                          *)
(***************************************************************************)
EXTENDS AdbForward, PhoneProxy, Launcher, WebLinks, WebAuth, UrlConverter, DbDiagnostics,
        DesktopGui, TLC

CONSTANTS t1, t2, t3, t4, v1, v2, v3, p1, p2

VARIABLE part

Limited == INSTANCE WebAuth WITH Names <- {}, Tokens <- {}
SignedIn == INSTANCE WebAuth WITH MaxMade <- 1

network == <<forwardVars, phoneVars, launcherVars>>
web == <<linksVars, authVars>>
files == <<converterVars, diagnosticsVars, guiVars>>
servicesVars == <<part, network, web, files>>

\* Two link workers share the converter of their AvitoParse; a second one of
\* their process, after a restart by the form, and one of another process.
MCConverterOf == (t1 :> v1) @@ (t2 :> v1) @@ (t3 :> v2) @@ (t4 :> v3)
MCProcessOf == (v1 :> p1) @@ (v2 :> p1) @@ (v3 :> p2)

MCStopOrder == <<"parser", "api">>
MCStartOrder == <<"api", "parser">>

\* A part that rests does so in one of its initial states.
Init ==
  /\ part \in {"forward", "phone", "launcher", "links", "sessions", "limit", "converter",
               "diagnostics", "gui"}
  /\ ForwardInit /\ LauncherInit /\ DiagnosticsInit
  /\ PhoneInit /\ (part # "phone" => transport = "adb" /\ tiny = "off")
  /\ LinksInit /\ (part # "links" => owners = {})
  /\ AuthInit
  /\ part # "sessions" => users = {} /\ adminPassword = CHOOSE p \in Passwords : TRUE
  /\ ConverterInit /\ (part # "converter" => file = Torn)
  /\ IF part = "gui" THEN GuiInit
     ELSE GuiInit /\ config = CHOOSE c \in WrittenFiles : TRUE

Next ==
  \/ part = "forward" /\ ForwardNext /\ UNCHANGED <<part, phoneVars, launcherVars, web, files>>
  \/ part = "phone" /\ PhoneNext /\ UNCHANGED <<part, forwardVars, launcherVars, web, files>>
  \/ part = "launcher" /\ LauncherNext /\ UNCHANGED <<part, forwardVars, phoneVars, web, files>>
  \/ part = "links" /\ LinksNext /\ UNCHANGED <<part, authVars, network, files>>
  \/ part = "sessions" /\ SignedIn!AuthNext /\ UNCHANGED <<part, linksVars, network, files>>
  \/ part = "limit" /\ Limited!AuthNext /\ UNCHANGED <<part, linksVars, network, files>>
  \/ /\ part = "converter" /\ ConverterNext
     /\ UNCHANGED <<part, diagnosticsVars, guiVars, network, web>>
  \/ /\ part = "diagnostics" /\ DiagnosticsNext
     /\ UNCHANGED <<part, converterVars, guiVars, network, web>>
  \/ part = "gui" /\ GuiNext /\ UNCHANGED <<part, converterVars, diagnosticsVars, network, web>>

Spec == Init /\ [][Next]_servicesVars
=============================================================================
