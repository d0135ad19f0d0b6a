------------------------------ MODULE ConfigFlow -----------------------------
(* config_flow.py: the set-up wizard, reconfiguration, reauthentication and   *)
(* the options panel, several of them open at a time (one in each browser).   *)
(* A host accepts one password, which is named like the host.                 *)
EXTENDS Naturals, FiniteSets

CONSTANTS
    Hosts,     \* inverters of the network
    Flows,     \* dialogs
    EntryIds   \* config entries there can be

ASSUME OneFlowEach == Cardinality(EntryIds) >= Cardinality(Flows) + 1

Unknown == "unknown"   \* a password no host accepts
Discover == "discover" \* the host field was left empty
Binds == {"ip", "legacy", "name"}
Options == [modbus : BOOLEAN, proxy : BOOLEAN, bind : Binds]

VARIABLES
    entries,   \* config entries: [EntryIds -> [host, password, options, tested]]
    flows,     \* dialogs: kind, step, the entry it is about, input and pending data
    oldBinds   \* history: bind addresses that are no IP and were stored before they were checked

flowVars == <<entries, flows, oldBinds>>

NoEntry == [host |-> "none", password |-> Unknown, tested |-> FALSE,
            options |-> [modbus |-> FALSE, proxy |-> FALSE, bind |-> "ip"]]
First == CHOOSE e \in EntryIds : TRUE
There == {e \in EntryIds : entries[e] # NoEntry}
NoFlow == [kind |-> "none", step |-> "idle", entry |-> First, host |-> Discover, password |-> Unknown,
           options |-> NoEntry.options]

\* One entry was set up by an older version, which stored any bind address.
FlowInit ==
    /\ \E o \in [modbus : {TRUE}, proxy : BOOLEAN, bind : {"ip", "legacy"}], h \in Hosts :
          /\ entries = [e \in EntryIds |-> IF e = First THEN [host |-> h, password |-> h, tested |-> TRUE, options |-> o]
                                           ELSE NoEntry]
          /\ oldBinds = {o.bind} \ {"ip"}
    /\ flows = [f \in Flows |-> NoFlow]

-----------------------------------------------------------------------------

accepts(h, pw) == pw = h                \* test_connection_safe: the log-in succeeds
validate_bind_address(b) == b = "ip"    \* helper.py: an IP address, or None

\* MQTT bridge and proxy need Modbus.
_normalize_options(o) == [o EXCEPT !.modbus = @ \/ o.proxy]

\* Mutant: discovery takes the inverter it finds.
FirstFound(host, pw) == IF host = Discover THEN Hosts ELSE {h \in {host} : accepts(h, pw)}
\* The hosts a connection check may end with: discovery goes on after a refusal.
resolve_connection_safe(host, pw) == {h \in IF host = Discover THEN Hosts ELSE {host} : accepts(h, pw)}

At(f, kind, step) == flows[f].kind = kind /\ flows[f].step = step
Goto(f, step) == flows' = [flows EXCEPT ![f].step = step]
End(f) == flows' = [flows EXCEPT ![f] = [NoFlow EXCEPT !.step = "done"]]

Open(f, kind, e) ==
    /\ flows[f].step = "idle"
    /\ kind = "user" \/ e \in There
    /\ flows' = [flows EXCEPT ![f] = [NoFlow EXCEPT !.kind = kind, !.entry = e,
                                        !.step = IF kind = "options" THEN "options" ELSE "form"]]
    /\ UNCHANGED <<entries, oldBinds>>

\* Reauth must use the host of the entry; the others take the form's.
SubmittedHost(f, host) == IF flows[f].kind = "reauth" THEN entries[flows[f].entry].host ELSE host

\* The form is submitted, and the connection is checked.
Submit(f, host, pw) ==
    /\ flows[f].step = "form"
    /\ flows' = [flows EXCEPT ![f].step = "checking", ![f].host = SubmittedHost(f, host), ![f].password = pw]
    /\ UNCHANGED <<entries, oldBinds>>

\* _handle_config_flow_error: the form is shown again.
CheckFails(f) == flows[f].step = "checking" /\ Goto(f, "form") /\ UNCHANGED <<entries, oldBinds>>

\* _async_abort_entries_match
Taken(h) == \E e \in There : entries[e].host = h

\* async_step_user: the wizard goes on with the options.
UserChecked(f, h) ==
    /\ At(f, "user", "checking") /\ h \in resolve_connection_safe(flows[f].host, flows[f].password)
    /\ IF Taken(h) THEN End(f) ELSE flows' = [flows EXCEPT ![f].step = "options", ![f].host = h]
    /\ UNCHANGED <<entries, oldBinds>>

\* async_step_reconfigure
ReconfigureChecked(f, h) ==
    /\ At(f, "reconfigure", "checking") /\ h \in resolve_connection_safe(flows[f].host, flows[f].password)
    /\ entries' = IF Taken(h) THEN entries
                  ELSE [entries EXCEPT ![flows[f].entry].host = h, ![flows[f].entry].password = flows[f].password]
    /\ End(f) /\ UNCHANGED oldBinds

\* async_step_reauth_confirm
ReauthChecked(f, h) ==
    /\ At(f, "reauth", "checking") /\ h \in resolve_connection_safe(flows[f].host, flows[f].password)
    /\ entries' = [entries EXCEPT ![flows[f].entry].host = h, ![flows[f].entry].password = flows[f].password]
    /\ End(f) /\ UNCHANGED oldBinds

-----------------------------------------------------------------------------
(* Options, in the wizard and in the panel.                                *)

Stored(f) == entries[flows[f].entry].options

\* Mutant: an address is checked only when it is the proxy's that runs.
BindWhenUsed(f, o) == o.proxy => validate_bind_address(o.bind)
\* The panel lets an old address pass that is not changed, unless the proxy is
\* turned on now; the wizard lets none pass.
BindAccepted(f, o) ==
    \/ validate_bind_address(o.bind)
    \/ flows[f].kind = "options" /\ o.bind = Stored(f).bind /\ ~(o.proxy /\ ~Stored(f).proxy)

Save(f, o, tested) ==
    /\ IF flows[f].kind = "user"
       THEN \E e \in EntryIds \ There :
              entries' = [entries EXCEPT ![e] = [host |-> flows[f].host, password |-> flows[f].password,
                                                 options |-> o, tested |-> tested]]
       ELSE entries' = [entries EXCEPT ![flows[f].entry].options = o, ![flows[f].entry].tested = tested]
    /\ End(f)

\* async_step_setup_options and async_step_init
OptionsSubmit(f, raw) ==
    /\ flows[f].step = "options"
    /\ LET o == _normalize_options(raw)
       IN  IF ~BindAccepted(f, o) THEN UNCHANGED <<flows, entries>>
           ELSE IF o.modbus THEN /\ flows' = [flows EXCEPT ![f].step = "test", ![f].options = o]
                                 /\ UNCHANGED entries
           ELSE Save(f, o, FALSE)
    /\ UNCHANGED oldBinds

\* Mutant: the test of the previous form is enough.
AnyResult(passed) == TRUE
\* The test is run again when the form is submitted, and has to pass.
TestedNow(passed) == passed

\* async_step_setup_modbus_test and async_step_modbus_test
TestSubmit(f, passed) ==
    /\ flows[f].step = "test"
    /\ IF TestedNow(passed) THEN Save(f, flows[f].options, passed) ELSE UNCHANGED <<flows, entries>>
    /\ UNCHANGED oldBinds

FlowNext ==
    \E f \in Flows :
        \/ \E kind \in {"user", "reconfigure", "reauth", "options"}, e \in EntryIds : Open(f, kind, e)
        \/ \E host \in Hosts \cup {Discover}, pw \in Hosts \cup {Unknown} : Submit(f, host, pw)
        \/ CheckFails(f)
        \/ \E h \in Hosts : UserChecked(f, h) \/ ReconfigureChecked(f, h) \/ ReauthChecked(f, h)
        \/ \E o \in Options : OptionsSubmit(f, o)
        \/ \E passed \in BOOLEAN : TestSubmit(f, passed)

FlowSpec == FlowInit /\ [][FlowNext]_flowVars

-----------------------------------------------------------------------------

\* Every entry holds a password its own host accepted, whichever dialogs ran
\* at the same time, and however the host was found.
CredentialsFit == \A e \in There : accepts(entries[e].host, entries[e].password)

\* An entry that uses Modbus has passed the test with the options it has, and
\* the proxy is never on without Modbus.
ModbusTested ==
    \A e \in There : /\ entries[e].options.modbus => entries[e].tested
                     /\ entries[e].options.proxy => entries[e].options.modbus

\* A bind address that is no IP is one of the time before they were checked:
\* no dialog stores a new one.
NoNewBadBind ==
    \A e \in There : ~validate_bind_address(entries[e].options.bind) => entries[e].options.bind \in oldBinds

\* What a dialog stores is what was tested, though others run at the same time
\* (the flows of config_flow.py).
EntriesTested == CredentialsFit /\ ModbusTested /\ NoNewBadBind

\* "Reauth must use the existing host to prevent accidental rebinding": a
\* reauthentication leaves the host of its entry as it is.
ReauthKeepsHost ==
    [][\A f \in Flows : (At(f, "reauth", "checking") /\ flows'[f].step = "done")
          => entries'[flows[f].entry].host = entries[flows[f].entry].host]_flowVars

\* An inverter is configured once.
OneEntryPerHost == \A d, e \in There : entries[d].host = entries[e].host => d = e

=============================================================================
