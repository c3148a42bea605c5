----------------------------- MODULE DesktopGui -----------------------------
(***************************************************************************)
(* The desktop form (AvitoParser.py) over config.toml (load_config.py).    *)
(* The form is filled from the file once, when it opens; every Start       *)
(* writes the file anew and the parser reads it back.  In between the file *)
(* may be edited by hand.                                                  *)
(*                                                                         *)
(* Of the settings the model keeps the links with their filters, one block *)
(* the form shows and the block of the web server, which it does not show. *)
(* An older file may have flat fields in place of a block and a list of    *)
(* urls in place of the links.  stopEvent is asked while stop_parser runs. *)
(* read, edited are history: what the form was filled from, and whether    *)
(* the file has been edited by hand since.                                 *)
(***************************************************************************)
EXTENDS Naturals, Functions

CONSTANTS SearchUrls,   \* urls of search pages
          Options,      \* the filters a link may have (LinkConfig)
          Unwritable,   \* those of them _toml_inline refuses: a bare date
          Settings,     \* contents of a block, one of them the default
          Default, Missing,
          MaxEdits      \* bound: edits by hand

ASSUME GuiAssumption ==
  Unwritable \subseteq Options /\ Default \in Settings /\ Missing \notin Settings
  /\ MaxEdits \in Nat

VARIABLES config, gui, form, prevLinks, button, stopEvent, parser, loaded, read, edited, edits

guiVars == <<config, gui, form, prevLinks, button, stopEvent, parser, loaded, read, edited,
             edits>>

Blocks == {"shown", "server"}
LinkMaps == UNION {[known -> SUBSET Options] : known \in SUBSET SearchUrls}

NoLinks == Restrict([url \in SearchUrls |-> {}], {})
Plain(urls) == [url \in urls |-> {}]

\* load_avito_config: a block, else the flat fields of the older format, else the defaults.
Setting(file, b) ==
  IF file.block[b] # Missing THEN file.block[b]
  ELSE IF file.flat[b] # Missing THEN file.flat[b] ELSE Default

Loaded(file) ==
  [links |-> IF DOMAIN file.links = {} THEN Plain(file.urls) ELSE file.links,
   server |-> Setting(file, "server"), shown |-> Setting(file, "shown")]

Defaults == [links |-> NoLinks, server |-> Default, shown |-> Default]

\* Mutant: the filters of the links are not carried over.
CollectedBare == Plain(form.urls)

\* The links as save_config collects them from the url field and prev_links.
Collected == [url \in form.urls |-> IF url \in DOMAIN prevLinks THEN prevLinks[url] ELSE {}]

\* What save_avito_config writes.  prev_server is never set: the server block is the default.
Saved == [whole |-> TRUE, links |-> Collected, urls |-> {},
          block |-> [b \in Blocks |-> IF b = "shown" THEN form.shown ELSE Default],
          flat |-> [b \in Blocks |-> Missing]]

EmptyForm == [urls |-> {}, shown |-> Default]

\* Files of the present and of the older format.
WrittenFiles ==
  [whole : {TRUE}, links : LinkMaps, urls : {{}},
   block : [Blocks -> Settings], flat : {[b \in Blocks |-> Missing]}]
  \cup
  [whole : {TRUE}, links : {NoLinks}, urls : SUBSET SearchUrls,
   block : {[b \in Blocks |-> Missing]}, flat : [Blocks -> Settings \cup {Missing}]]

GuiInit ==
  /\ config \in WrittenFiles
  /\ gui = "closed" /\ form = EmptyForm /\ prevLinks = NoLinks
  /\ button = "ready" /\ stopEvent = "clear"
  /\ parser = "none" /\ loaded = Defaults
  /\ read = Defaults /\ edited = FALSE /\ edits = 0

\* set_up: a file that cannot be read leaves the form as it was built.
OpenGui ==
  /\ gui = "closed"
  /\ gui' = "open" /\ button' = "ready" /\ stopEvent' = "clear"
  /\ read' = IF config.whole THEN Loaded(config) ELSE Defaults
  /\ prevLinks' = read'.links
  /\ form' = [urls |-> DOMAIN read'.links, shown |-> read'.shown]
  /\ edited' = FALSE
  /\ UNCHANGED <<config, parser, loaded, edits>>

Fill ==
  /\ gui = "open"
  /\ form' \in [urls : SUBSET SearchUrls, shown : Settings]
  /\ UNCHANGED <<config, gui, prevLinks, button, stopEvent, parser, loaded, read, edited, edits>>

\* start_parser with settings check_string lets through.
Start ==
  /\ gui = "open" /\ button = "ready" /\ stopEvent # "asked"
  /\ \A url \in form.urls : Collected[url] \cap Unwritable = {}
  /\ config' = Saved
  /\ stopEvent' = "clear" /\ button' = "hidden" /\ parser' = "loading"
  /\ UNCHANGED <<gui, form, prevLinks, loaded, read, edited, edits>>

\* _format_links raises before anything is written.
StartRefused ==
  /\ gui = "open" /\ button = "ready" /\ stopEvent # "asked"
  /\ \E url \in form.urls : Collected[url] \cap Unwritable # {}
  /\ stopEvent' = "clear"
  /\ UNCHANGED <<config, gui, form, prevLinks, button, parser, loaded, read, edited, edits>>

\* write_text empties the file first; the process dies before it has written all.
StartCut ==
  /\ gui = "open" /\ button = "ready" /\ stopEvent # "asked"
  /\ \A url \in form.urls : Collected[url] \cap Unwritable = {}
  /\ config' = [config EXCEPT !.whole = FALSE]
  /\ gui' = "closed"
  /\ UNCHANGED <<form, prevLinks, button, stopEvent, parser, loaded, read, edited, edits>>

\* run_process: an error of the load is not caught and leaves the buttons.
Load ==
  /\ parser = "loading"
  /\ IF config.whole THEN parser' = "running" /\ loaded' = Loaded(config)
                     ELSE parser' = "none" /\ UNCHANGED loaded
  /\ UNCHANGED <<config, gui, form, prevLinks, button, stopEvent, read, edited, edits>>

ParserEnds ==
  /\ parser = "running" /\ stopEvent # "clear"
  /\ parser' = "none" /\ button' = "ready" /\ loaded' = Defaults
  /\ UNCHANGED <<config, gui, form, prevLinks, stopEvent, read, edited, edits>>

\* Any error but that of a rotation passes through run_process.
ParserFails ==
  /\ parser = "running"
  /\ parser' = "none" /\ loaded' = Defaults
  /\ UNCHANGED <<config, gui, form, prevLinks, button, stopEvent, read, edited, edits>>

\* stop_parser, its event first and its buttons afterwards.
Stop ==
  /\ gui = "open" /\ button = "hidden" /\ stopEvent = "clear"
  /\ stopEvent' = "asked"
  /\ UNCHANGED <<config, gui, form, prevLinks, button, parser, loaded, read, edited, edits>>

StopShown ==
  /\ gui = "open" /\ stopEvent = "asked"
  /\ stopEvent' = "set" /\ button' = "stopping"
  /\ UNCHANGED <<config, gui, form, prevLinks, parser, loaded, read, edited, edits>>

\* The window is closed or killed, or os._exit ends it after a failed rotation.
Leave ==
  /\ gui = "open"
  /\ gui' = "closed" /\ parser' = "none" /\ loaded' = Defaults
  /\ UNCHANGED <<config, form, prevLinks, button, stopEvent, read, edited, edits>>

\* Another file, or one that is not TOML by a slip.
EditByHand ==
  /\ edits < MaxEdits
  /\ edits' = edits + 1
  /\ config' \in WrittenFiles \cup {[config EXCEPT !.whole = FALSE]}
  /\ edited' = TRUE
  /\ UNCHANGED <<gui, form, prevLinks, button, stopEvent, parser, loaded, read>>

GuiNext ==
  \/ OpenGui \/ Fill \/ Start \/ StartRefused \/ StartCut \/ Load \/ ParserEnds
  \/ ParserFails \/ Stop \/ StopShown \/ Leave \/ EditByHand

GuiSpec == GuiInit /\ [][GuiNext]_guiVars

-----------------------------------------------------------------------------

\* A parser started from the form scans a link with the filters the file had when the form
\* was filled, through any number of starts, unless the file was edited by hand since
\* (set_up, save_config, save_avito_config and load_avito_config together).
FiltersSurvive ==
  parser = "running" /\ ~edited =>
    \A url \in DOMAIN loaded.links \cap DOMAIN read.links : loaded.links[url] = read.links[url]

\* docs/CONFIG.md:8: the form loads config.toml at its start and saves it back: what it does
\* not show is kept.
ServerKept == parser = "running" /\ ~edited => loaded.server = read.server

=============================================================================
