------------------------ MODULE AcquisitionDevices ------------------------
(***************************************************************************)
(* Drivers of data acquisition devices that talk SCPI.  InstroDAQ calls    *)
(* them without a resource lock (its own machine is module DAQ), so what   *)
(* keeps a command and its error check together is the driver's section    *)
(* alone, and a call is the driver's program.                              *)
(***************************************************************************)
EXTENDS Programs

Relays == {"close_relay", "open_relay"}
PortKinds == {"configure_di_line_channel", "configure_do_line_channel",
              "configure_di_port_channel", "configure_do_port_channel"}

\* A port is set up by five commands, the scan by four.  fetch_analog asks
\* for the number of points until there are enough, all in one section, so
\* that another caller's stop() waits for it; of its questions the model
\* keeps up to two.
Keysight34980A ==
    LET Clock == Section(<<"write", "write", "check">>)
    IN
    OneOf({"open"}, {Section(<<"write", "clear", "check">>),
                     Section(<<"write", "clear", "check">>) \o Clock})
    @@ On({"configure_ai_voltage_channel"}, Checked(<<"write", "write", "write", "write">>))
    @@ On({"configure_ai_hw_timing", "start"}, Checked(<<"write", "write", "write">>))
    @@ On({"stop", "write_digital_line"} \cup Relays, Checked(<<"write">>))
    @@ On({"read_analog"}, Checked(<<"query">>))
    @@ OneOf({"fetch_analog"}, {<<"args">> \o Checked(<<"query", "args", "query">>),
                                <<"args">> \o Checked(<<"query", "args", "query", "args", "query">>)})
    @@ On(PortKinds, <<"args">> \o Checked(<<"write", "write", "write", "write", "write">>))
    @@ On({"read_digital_line"}, Checked(<<"query">>) \o <<"args">>)
    @@ On({"write_digital_port"}, <<"args">> \o Checked(<<"write">>))
    @@ On({"read_digital_port"}, <<"args">> \o Checked(<<"query">>) \o <<"args">>)
=============================================================================
