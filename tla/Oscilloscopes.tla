--------------------------- MODULE Oscilloscopes ---------------------------
(***************************************************************************)
(* The oscilloscope facade, InstroScope, and its drivers.                  *)
(*                                                                         *)
(* The drivers enter no section of the transport but for one exchange at a *)
(* time: the facade's resource lock alone keeps an exchange, the error     *)
(* check after it and the steps of a waveform transfer together, so        *)
(* nobody but the facade may use such a driver.                            *)
(*                                                                         *)
(* The traces, the preambles and the measured values are data.  Whether an *)
(* acquisition is awaited before a transfer (_acquisition_armed) is left   *)
(* open: the flag is set and cleared outside the lock.                     *)
(***************************************************************************)
EXTENDS Programs

VerticalSetters == {"set_vertical_scale", "set_vertical_offset", "set_coupling", "set_probe_attenuation"}
VerticalGetters == {"get_vertical_scale", "get_vertical_offset", "get_coupling", "get_probe_attenuation"}
FrontSetters == VerticalSetters \cup {"set_horizontal_scale", "set_average_count"}
FrontGetters == VerticalGetters \cup {"get_horizontal_scale", "get_sample_rate", "get_acquisition_mode",
                                      "get_average_count", "get_acquisition_state"}
TriggerSetters == {"set_trigger_source", "set_trigger_type", "set_trigger_level",
                   "set_trigger_slope", "set_trigger_mode", "force_trigger"}
Acquisition == {"run", "stop", "single"}
Transfers == {"save_screenshot", "save_settings", "load_settings"}

ScopeCommands == FrontSetters \cup FrontGetters \cup Acquisition \cup {"set_acquisition_mode"}
                 \cup TriggerSetters \cup {"get_trigger_status"} \cup Transfers

-----------------------------------------------------------------------------
(* The drivers.  check_errors is a method of each, "complaint" here.       *)

\* Waiting for the trigger is one exchange with a longer timeout; a device
\* clear after its failure empties the line, not the error queue.
Awaiting(arm) == arm \o Section(<<"query">>)

Keysight1200XFront ==
    OneOf({"complaint"}, {<<"check">>})
    @@ On(FrontSetters \cup Acquisition, <<"write">>)
    @@ On(FrontGetters, <<"query">>)
    @@ OneOf({"set_acquisition_mode"}, {<<"write">>, Refused})
    @@ On({"digitize"}, Awaiting(<<"write">>))

Keysight1200X ==
    On({"fetch_waveform"},
       <<"select", "write", "write", "write", "write", "check", "act", "args", "act">>)
    @@ On({"measure"}, <<"write", "check", "query">>)
    @@ On(TriggerSetters, <<"write">>)
    @@ On({"get_trigger_status"}, <<"query">>)
    @@ OneOf({"save_screenshot"}, {<<"write", "check">>, <<"query", "args">>})
    @@ OneOf({"save_settings"}, {<<"write", "check">>, <<"write", "check", "query", "args">>})
    @@ OneOf({"load_settings"}, {<<"write">>, <<"args", "write">>})
    @@ Keysight1200XFront

\* The whole queue is read, up to its depth; the ink saver is put back after
\* a screenshot that fails.
Keysight3000TXFront ==
    On({"complaint"}, <<"drain">>)
    @@ On(FrontSetters \cup Acquisition \cup {"set_channel_display"}, <<"write">>)
    @@ On(FrontGetters \cup {"get_channel_display"}, <<"query">>)
    @@ OneOf({"set_acquisition_mode"}, {<<"write">>, Refused})
    @@ On({"digitize"}, Awaiting(<<"write">>))

Keysight3000TX ==
    On({"fetch_waveform"}, <<"select", "write", "write", "write", "write", "write", "drain",
                             "act", "args", "act", "args">>)
    @@ On({"measure"}, <<"write", "drain", "query">>)
    @@ On(TriggerSetters, <<"write">>)
    @@ On({"get_trigger_status"}, <<"query">>)
    @@ OneOf({"save_screenshot"},
             {<<"write", "write", "drain">>,
              <<"query", "write", "enter", "query", "finally", "args">>})
    @@ OneOf({"save_settings"}, {<<"write", "drain">>, <<"query", "args">>})
    @@ OneOf({"load_settings"}, {<<"write">>, <<"args", "write">>})
    @@ Keysight3000TXFront

\* Two registers stand for the queue, one for commands and one for execution.
SiglentSDS1000XEFront ==
    On({"open"}, <<"write", "clear">>)
    @@ On({"complaint"}, <<"check", "check">>)
    @@ On(FrontSetters \cup {"run", "stop"}, <<"write">>)
    @@ On(FrontGetters, <<"query">>)
    @@ On({"single"}, <<"write", "write">>)
    @@ OneOf({"set_acquisition_mode"}, {<<"write">>, Refused})
    @@ OneOf({"digitize"}, {<<"write", "write", "query">>, <<"write", "write", "query", "query">>,
                            <<"write", "write", "query", "write">> \o Refused})

SiglentSDS1000XE ==
    On({"fetch_waveform"}, <<"write", "check", "check", "query", "query", "query", "query",
                             "query", "query">> \o Section(<<"hush">>) \o <<"args">>)
    @@ On({"measure", "get_trigger_status"}, <<"query">>)
    @@ On(TriggerSetters, <<"write">>)
    @@ OneOf({"save_screenshot"}, {Section(<<"write", "query">>) \o <<"args">>, Refused})
    @@ OneOf({"save_settings"}, {Section(<<"write", "query">>) \o <<"args">>, <<"write">>})
    @@ OneOf({"load_settings"}, {<<"write">>, <<"args", "write">>})
    @@ SiglentSDS1000XEFront

Tektronix2SeriesMSOFront ==
    On({"complaint"}, <<"drain">>)
    @@ On(FrontSetters \cup {"stop", "set_acquisition_mode"}, <<"write">>)
    @@ On(FrontGetters, <<"query">>)
    @@ On({"run", "single"}, <<"write", "write">>)
    @@ On({"digitize"}, Awaiting(<<"write", "write">>))
    @@ On({"fetch_waveform"},
          <<"select", "write", "write", "write", "drain", "act", "write",
            "act", "act", "act", "act", "act", "act">>)

\* A measurement occupies a slot of the instrument, which is set up once; the
\* slot is the entry that the list has gained.
TektronixSlot == <<"args", "query", "write", "query", "args", "write", "drain", "query">>

\* The file transfers go by way of the instrument's own disk.
Tektronix2SeriesMSO ==
    LET Transfer == <<"write">> \o Section(<<"query">>) \o <<"drain">>
                    \o Section(<<"write", "query">>) \o <<"write", "args">>
    IN
    OneOf({"setup_measurement"}, {<<>>, TektronixSlot})
    @@ On({"measure", "get_trigger_status"}, <<"query">>)
    @@ On(TriggerSetters, <<"write">>)
    @@ OneOf({"save_screenshot", "save_settings"}, {<<"write">>, Transfer})
    @@ OneOf({"load_settings"}, {<<"write">>, <<"args", "write", "write", "write">>})
    @@ Tektronix2SeriesMSOFront

\* A scope of software: nothing is sent.
VirtualScope ==
    On({"complaint", "digitize"} \cup Acquisition, <<>>)
    @@ On((ScopeCommands \ (Acquisition \cup Transfers)) \cup {"fetch_waveform", "measure"},
          <<"args">>)
    @@ On(Transfers, Refused)

-----------------------------------------------------------------------------
(* The facade.                                                             *)

\* A command or a question, and the error check, under the resource lock.
Commanded(driver, S) ==
    {<<"take">> \o p \o <<"drop">> :
        p \in Then(UNION {driver[method] : method \in S}, driver["complaint"])}

Awaited(driver) == {<<>>} \cup driver["digitize"]

SetUp(driver) == IF "setup_measurement" \in DOMAIN driver THEN driver["setup_measurement"] ELSE {<<>>}

FetchWaveform(driver) ==
    {Guarded(p) : p \in Then(Awaited(driver), Then(driver["fetch_waveform"], driver["complaint"]))}

\* The driver sets the measurement up again, to no effect: it has its slot.
MeasureTrace(driver) ==
    {Guarded(p) : p \in Then(SetUp(driver),
                             Then(Awaited(driver), Then(driver["measure"], driver["complaint"])))}

\* sync_configuration: of the questions for every channel and setting the
\* model keeps two.
SyncConfiguration(driver) ==
    {<<"take">> \o p \o <<"drop">> :
        p \in Then(driver["get_vertical_scale"], Then(driver["get_average_count"], driver["complaint"]))}

ScopeCalls(driver) ==
    Then(Commanded(driver, ScopeCommands) \cup SyncConfiguration(driver), {<<"return">>})
    \cup FetchWaveform(driver)
    \cup MeasureTrace(driver)

\* open(): the configuration is applied by the public setters, the polled
\* measurements are set up, and what the instrument made of it is read back;
\* if that fails the driver is closed.
ScopeOpen(driver) ==
    LET body == IF "open" \in DOMAIN driver THEN driver["open"] ELSE {<<>>}
        setup == {<<"take">> \o p \o <<"drop">> : p \in Then(SetUp(driver), driver["complaint"])}
        settings == Then({<<>>} \cup Commanded(driver, {"set_coupling"}),
                         Then(setup, SyncConfiguration(driver)))
    IN  UNION {Opening(b \o <<"try">> \o s \o <<"settle">>) : b \in body, s \in {<<>>} \cup settings}
=============================================================================
