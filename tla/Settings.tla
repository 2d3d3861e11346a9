------------------------------ MODULE Settings ------------------------------
(***************************************************************************)
(* The settings page at work (crates/app/src/settings_page.rs): tabs that  *)
(* were rendered some time ago, forms that come back from them, and what   *)
(* becomes of the configuration and of the autostart entry, while the tray *)
(* switches modes, the machine changes networks and somebody edits the     *)
(* registry.  The channel to the task that owns the configuration is that  *)
(* of Supervisor.tla; here it is long enough.                              *)
(***************************************************************************)
EXTENDS Form, Autostart, FiniteSets

CONSTANTS
  Tabs,      \* open pages
  First,     \* the configuration at the start
  Nets,      \* networks the machine may be in: [id, name]
  Modes,     \* modes of the tray
  Entries,   \* what the Run key may hold
  Edits,     \* what a person may do to a page, of what Typed knows
  Actions    \* bound: so many submits, and so many events outside the page

\* No network.
None == [id |-> << >>, name |-> << >>]

ASSUME SettingsAssumption ==
  /\ Actions \in Nat /\ Entries # {}
  /\ Edits \subseteq {"nothing", "socks", "bypass", "tick", "row", "clear", "port", "box"}

\* A configuration as the page writes it: no blanks around a text, one comma between two
\* elements, no network without an id.
TidyNetwork(net) ==
  net = [id |-> Trim(net.id), name |-> Trim(net.name)] /\ net.id # << >>
TidyConfig(cfg) ==
  /\ cfg = [bridge_port |-> Trim(cfg.bridge_port), socks_upstream |-> Trim(cfg.socks_upstream),
            http_upstream |-> Trim(cfg.http_upstream), no_proxy |-> NormaliseBypass(cfg.no_proxy),
            office_networks |-> cfg.office_networks, toggles |-> cfg.toggles, mode |-> cfg.mode]
  /\ cfg.toggles \subseteq Toggles
  /\ cfg.office_networks \in Seq(Range(cfg.office_networks))
  /\ \A net \in Range(cfg.office_networks) : TidyNetwork(net)

\* The file as the program or the page has written it, and networks as Windows names them.
ASSUME TidyAssumption == TidyConfig(First) /\ \A net \in Nets : TidyNetwork(net)

VARIABLES
  saved,     \* the configuration, as the page and the owning task have it
  entry,     \* the autostart entry in the registry
  entryReadable, \* and whether reading it works
  place,     \* the network of AppState, or None
  tabs,      \* the pages, see Closed
  inbox,     \* the command channel
  acted      \* submits and events so far

settingsVars == <<saved, entry, entryReadable, place, tabs, inbox, acted>>
world == <<entry, entryReadable, place>>

\* shown: what the page was rendered with; typed and meant: what the person
\* made of it; fresh: nothing else has changed since; done: the reply came.
Nothing == [cfg |-> First, auto |-> [on |-> FALSE, disabled |-> FALSE], net |-> None]
Closed == [at |-> "closed", shown |-> Nothing, meant |-> Nothing,
           fresh |-> FALSE, done |-> FALSE, told |-> {}]

Notes == {"refused", "applied", "late", "on", "off", "failed"}

SettingsTypeOK ==
  /\ saved.mode \in Modes /\ entry \in Entries \cup {Enable, Disable} /\ entryReadable \in BOOLEAN
  /\ place \in Nets \cup {None}
  /\ \A t \in Tabs :
       /\ tabs[t].at \in {"closed", "open", "waiting"}
       /\ tabs[t].fresh \in BOOLEAN /\ tabs[t].done \in BOOLEAN /\ tabs[t].told \subseteq Notes
  /\ acted \in 0 .. 2 * Actions

SettingsInit ==
  /\ saved = First /\ entry \in Entries /\ entryReadable = TRUE
  /\ place \in Nets \cup {None}
  /\ tabs = [t \in Tabs |-> Closed]
  /\ inbox = << >> /\ acted = 0

Act == acted < Actions /\ acted' = acted + 1

\* Somebody else changed something: every page but t's is out of date.
Outdate(t) == [u \in Tabs |-> IF u = t THEN tabs[u] ELSE [tabs[u] EXCEPT !.fresh = FALSE]]
OutdateAll == [u \in Tabs |-> [tabs[u] EXCEPT !.fresh = FALSE]]

-----------------------------------------------------------------------------
(* The page.                                                               *)

\* render: an entry that cannot be read is shown as an empty box that is
\* disabled; the button for the present network bears its name.
AutostartBox ==
  IF entryReadable THEN [on |-> IsEnabled(entry), disabled |-> FALSE]
  ELSE [on |-> FALSE, disabled |-> TRUE]

Page(told) ==
  [at |-> "open", shown |-> [cfg |-> saved, auto |-> AutostartBox, net |-> place],
   meant |-> Nothing, fresh |-> TRUE, done |-> FALSE, told |-> told]

\* A command of this tab is still in the channel.
InFlight(t) == \E k \in DOMAIN inbox : inbox[k].cmd = "ApplyConfig" /\ inbox[k].done = t

Open(t) ==
  /\ tabs[t].at # "waiting" /\ ~InFlight(t)
  /\ tabs' = [tabs EXCEPT ![t] = Page({})]
  /\ UNCHANGED <<saved, world, inbox, acted>>

\* What a person may type into a page, and what is meant by it.
Typed(shown, edit) ==
  CASE edit = "nothing" -> shown
    [] edit = "socks" -> [shown EXCEPT !.cfg.socks_upstream = <<"sp", "up", "sp">>]
    [] edit = "bypass" -> [shown EXCEPT !.cfg.no_proxy = <<"b", "nl", "nl", "sp", "a", "comma">>]
    [] edit = "tick" -> [shown EXCEPT !.cfg.toggles = Toggles \ @]
    [] edit = "row" -> [shown EXCEPT !.cfg.office_networks =
                          @ \o <<[id |-> <<"hand">>, name |-> <<"mine">>]>>]
    [] edit = "clear" -> [shown EXCEPT !.cfg.office_networks =
                            [i \in DOMAIN @ |-> IF i = 1 THEN [@[i] EXCEPT !.id = <<"sp">>] ELSE @[i]]]
    [] edit = "port" -> [shown EXCEPT !.cfg.bridge_port = <<"0">>]
    [] edit = "box" -> IF shown.auto.disabled THEN shown
                       ELSE [shown EXCEPT !.auto.on = ~@]

\* An empty row is no network; blanks around a text mean nothing.
Meant(shown, edit) ==
  LET t == Typed(shown, edit)
  IN CASE edit = "socks" -> [t EXCEPT !.cfg.socks_upstream = <<"up">>]
       [] edit = "bypass" -> [t EXCEPT !.cfg.no_proxy = <<"b", "comma", "a">>]
       [] edit = "clear" -> [t EXCEPT !.cfg.office_networks = IF @ = << >> THEN @ ELSE Tail(@)]
       [] OTHER -> t

\* With the button of the network, that network is meant as well.
MeantWith(shown, edit, button) ==
  LET m == Meant(shown, edit)
  IN IF button = "office" THEN [m EXCEPT !.cfg.office_networks = Append(@, shown.net)] ELSE m

-----------------------------------------------------------------------------
(* apply: from the form to the command.                                    *)

\* Config::validate, as far as the form can fail it here.
Valid(cfg) ==
  cfg.bridge_port # <<"0">> /\ \A i \in DOMAIN cfg.office_networks : cfg.office_networks[i].id # << >>

\* What if the rest of the configuration came from the page's own copy?
Next_Shown(t, form) == ConfigFromForm([tabs[t].shown.cfg EXCEPT !.mode = First.mode], form)

\* The form over the configuration of now.
NextConfig(t, form) == ConfigFromForm(saved, form)

\* The present network, which need not be the one the button showed.
OfficeRefused(next) ==
  \/ place = None
  \/ \E i \in DOMAIN next.office_networks : next.office_networks[i].id = place.id
WithNetwork(next) == [next EXCEPT !.office_networks = Append(@, place)]

Refuse(t) ==
  /\ tabs' = [tabs EXCEPT ![t] = Page({"refused"})]
  /\ UNCHANGED <<saved, world, inbox>>

\* apply_autostart: nothing is written when nothing changed or when what is
\* there is not known; a write may fail.
ApplyAutostart(form, note) ==
  LET wanted == Checked(form, "autostart")
  IN IF entryReadable
     THEN IF IsEnabled(entry) = wanted THEN note = {} /\ UNCHANGED entry
          ELSE \/ /\ note = {IF wanted THEN "on" ELSE "off"}
                  /\ entry' = IF wanted THEN Enable ELSE Disable
               \/ note = {"failed"} /\ UNCHANGED entry
     ELSE note = (IF wanted THEN {"failed"} ELSE {}) /\ UNCHANGED entry

Accept(t, next, form, meant) ==
  \E note \in {{}, {"on"}, {"off"}, {"failed"}} :
    /\ ApplyAutostart(form, note)
    /\ inbox' = Append(inbox, [cmd |-> "ApplyConfig", config |-> next, done |-> t])
    /\ tabs' = LET others == IF entry' = entry THEN tabs ELSE Outdate(t)
               IN [others EXCEPT ![t] = [at |-> "waiting", shown |-> @.shown, meant |-> meant,
                                         fresh |-> @.fresh, done |-> FALSE, told |-> note]]
    /\ UNCHANGED <<saved, entryReadable, place>>

\* What if the entry were written before the form was checked?
Apply_AutostartFirst(t, form, next, refused, meant) ==
  \E note \in {{}, {"on"}, {"off"}} :
    IF refused THEN /\ ApplyAutostart(form, note)
                    /\ tabs' = [tabs EXCEPT ![t] = Page({"refused"})]
                    /\ UNCHANGED <<saved, entryReadable, place, inbox>>
    ELSE Accept(t, next, form, meant)

\* First everything that can be refused, then what takes effect.
Apply(t, form, next, refused, meant) ==
  IF refused THEN Refuse(t) ELSE Accept(t, next, form, meant)

\* handle_post with action=save or action=office.
Submit(t, edit, button) ==
  /\ tabs[t].at = "open" /\ ~InFlight(t) /\ Act
  /\ button = "office" => tabs[t].shown.net # None
  /\ \E typed \in {Typed(tabs[t].shown, edit)} :
     \E form \in {Fields(typed.cfg, typed.auto)} :
     \E read \in {NextConfig(t, form)} :
     \E next \in {IF button = "office" /\ place # None THEN WithNetwork(read) ELSE read} :
       Apply(t, form, next,
             ~PortIsRead(form) \/ (button = "office" /\ OfficeRefused(read)) \/ ~Valid(next),
             MeantWith(tabs[t].shown, edit, button))

\* The answer: the page again, with the notes.
Answer(t) ==
  /\ tabs[t].at = "waiting" /\ tabs[t].done
  /\ tabs' = [tabs EXCEPT ![t] = Page(tabs[t].told \cup {"applied"})]
  /\ UNCHANGED <<saved, world, inbox, acted>>

\* APPLY_TIMEOUT: the command stays where it is.
Late(t) ==
  /\ tabs[t].at = "waiting" /\ ~tabs[t].done
  /\ tabs' = [tabs EXCEPT ![t] = Page(tabs[t].told \cup {"late"})]
  /\ UNCHANGED <<saved, world, inbox, acted>>

-----------------------------------------------------------------------------
(* The owning task, the tray, and everybody else.                          *)

\* run_logged: the command is applied and answered, whether or not it could
\* be written to the file (Supervisor.tla).  A page that has given it up shows what
\* was before.
Take ==
  /\ inbox # << >> /\ inbox' = Tail(inbox)
  /\ LET cmd == Head(inbox)
     IN IF cmd.cmd = "SetMode"
        THEN saved' = [saved EXCEPT !.mode = cmd.mode] /\ tabs' = OutdateAll
        ELSE /\ saved' = cmd.config
             /\ tabs' = IF tabs[cmd.done].at = "waiting"
                        THEN [Outdate(cmd.done) EXCEPT ![cmd.done].done = TRUE]
                        ELSE OutdateAll
  /\ UNCHANGED <<world, acted>>

SetMode(m) ==
  /\ Act /\ inbox' = Append(inbox, [cmd |-> "SetMode", mode |-> m])
  /\ UNCHANGED <<saved, world, tabs>>

\* The machine moves; somebody edits the registry; reading it fails for a while.
Outside ==
  /\ Act
  /\ \/ \E p \in Nets \cup {None} : place' = p /\ UNCHANGED <<entry, entryReadable>>
     \/ \E e \in Entries : entry' = e /\ UNCHANGED <<place, entryReadable>>
     \/ entryReadable' = ~entryReadable /\ UNCHANGED <<place, entry>>
  /\ world' # world
  /\ tabs' = OutdateAll
  /\ UNCHANGED <<saved, inbox>>

SettingsNext ==
  \/ \E t \in Tabs :
       \/ Open(t) \/ Answer(t) \/ Late(t)
       \/ \E edit \in Edits, button \in {"save", "office"} : Submit(t, edit, button)
  \/ Take \/ Outside
  \/ \E m \in Modes : SetMode(m)

-----------------------------------------------------------------------------
(* Properties.                                                             *)

\* The form of a page says what the person meant by it: of the configuration the
\* page shows it makes the one that is meant, and of the box what is ticked.
ReadsBack(shown, edit) ==
  \E typed \in {Typed(shown, edit)} : \E form \in {Fields(typed.cfg, typed.auto)} :
    \E meant \in {Meant(shown, edit)} :
      /\ ConfigFromForm(shown.cfg, form) = meant.cfg
      /\ shown.auto.disabled \/ Checked(form, "autostart") = meant.auto.on

\* That is so of every page somebody looks at; and the entry that is written for a
\* ticked box is one that ticks it.
PagesReadBack ==
  /\ \A t \in Tabs : tabs[t].at = "open" => \A edit \in Edits : ReadsBack(tabs[t].shown, edit)
  /\ IsEnabled(Enable) /\ ~IsEnabled(Disable)

\* A form that is refused has not been carried out in part: neither a command
\* nor the autostart entry comes of it.
RefusedMeansUntouched ==
  [][\A t \in Tabs : tabs'[t] # tabs[t] /\ tabs'[t].fresh /\ "refused" \in tabs'[t].told =>
       UNCHANGED <<saved, entry, inbox>>]_settingsVars

\* When nothing else has changed since the page was rendered, saving it does
\* what the person did to it and nothing else: every field of the configuration
\* that was not touched keeps its value, and so does autostart; the button of a
\* network adds the network it names.
AppliedAsMeant ==
  [][\A t \in Tabs :
       tabs[t].at = "waiting" /\ tabs[t].fresh /\ "applied" \in tabs'[t].told =>
         /\ saved = tabs[t].meant.cfg
         /\ "failed" \in tabs[t].told \/ tabs[t].shown.auto.disabled
            \/ IsEnabled(entry) = tabs[t].meant.auto.on]_settingsVars

\* A form is carried out as it was meant, or not at all and the page says so.
SavedAsMeant == AppliedAsMeant /\ RefusedMeansUntouched
=============================================================================
