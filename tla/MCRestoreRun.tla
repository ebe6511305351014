---------------------------- MODULE MCRestoreRun ----------------------------
\* Instances of RestoreRun: a table section, the reservations or the forms at a
\* time, the rest of the gateway as the dump has it.
EXTENDS RestoreRunInvariant

MCNames == {"mosh", "Mosh", "vpn", "game", "http"}
MCFold == [n \in MCNames |-> IF n = "Mosh" THEN "mosh" ELSE n]

S(name, kind) == [name |-> name, kind |-> kind]
F(service, device) == [service |-> service, device |-> device]

Wifi(shows, boxes, security, key, box) ==
  [shows |-> shows, boxes |-> boxes,
   value |-> [f \in Fields["wconfig"] |->
     CASE f = "security" -> security [] f = "key" -> key [] f = "box" -> box]]
AllWifi == Fields["wconfig"]
Plain(page, values) == [shows |-> Fields[page], boxes |-> {}, value |-> values]
Lan(ipaddr, lease) ==
  Plain("dhcpserver", [f \in Fields["dhcpserver"] |-> IF f = "ipaddr" THEN ipaddr ELSE lease])
Mac(mode) == Plain("wmacauth", [f \in {"wmacr"} |-> mode])

Before ==
  [services |-> <<S("mosh", "tcp"), S("vpn", "tcp")>>,
   forwards |-> <<F("mosh", "d1"), F("http", "d2")>>,
   fixed |-> [d \in Devices |-> IF d = "d1" THEN "ip1" ELSE NoIp],
   listed |-> Devices, label |-> [d \in Devices |-> d],
   forms |-> [p \in FormPages |->
     CASE p = "wconfig" -> Wifi(AllWifi, {"box"}, "wpa", "secret", "off")
       [] p = "wmacauth" -> Mac("allow")
       [] p = "dhcpserver" -> Lan("lan1", "day")],
   filters |-> {"m1"}, menus |-> TRUE, buttons |-> TRUE]

DumpOf(g) ==
  [services |-> g.services, forwards |-> g.forwards, fixed |-> g.fixed,
   forms |-> [p \in FormPages |-> FormDump(p, g.forms[p])],
   filters |-> g.filters]

Dump == DumpOf(Before)
NoOptional == [Dump EXCEPT !.forms["dhcpserver"].captured = FALSE]
Literal == DumpOf([Before EXCEPT !.forms["wconfig"].value["key"] = Unchecked])

Job(dump, selected, prune) == [dump |-> dump, selected |-> selected, prune |-> prune]
Start(j, g, held) == [job |-> j, gw |-> g, leases |-> held]

ServiceTables ==
  {<<>>, <<S("mosh", "udp")>>, <<S("vpn", "tcp"), S("mosh", "tcp")>>,
   <<S("game", "tcp"), S("Mosh", "udp")>>, <<S("Mosh", "tcp"), S("vpn", "udp")>>,
   <<S("game", "udp"), S("mosh", "tcp"), S("vpn", "udp")>>}
ForwardTables ==
  {<<>>, <<F("mosh", "d1")>>, <<F("http", "d1"), F("mosh", "d2")>>,
   <<F("game", "d2"), F("mosh", "d1")>>, <<F("Mosh", "d1")>>}
Meaningful(services, forwards) ==
  \A r \in ToSet(forwards) :
    r.service \in Builtin \cup {s.name : s \in ToSet(services)}

Tables ==
  {[Before EXCEPT !.services = s, !.forwards = f] :
     s \in ServiceTables, f \in ForwardTables}
MeaningfulTables == {g \in Tables : Meaningful(g.services, g.forwards)}
Hindered ==
  UNION {{[g EXCEPT !.menus = FALSE], [g EXCEPT !.buttons = FALSE],
          [g EXCEPT !.listed = {"d1"}], [g EXCEPT !.label = [d \in Devices |-> "d1"]]} :
           g \in {h \in MeaningfulTables : h.services = <<>> \/ Len(h.services) = 3}}

TableStarts ==
  {Start(Job(Dump, selected, prune), g, {}) :
     selected \in {{"services", "apphosting"}, {"services"}, {"apphosting"}},
     prune \in BOOLEAN, g \in MeaningfulTables \cup Hindered}

ReservationStarts ==
  {Start(Job(Dump, {"ipalloc"}, FALSE), [Before EXCEPT !.fixed = f, !.listed = known], held) :
     f \in {[d \in Devices |-> NoIp], [d \in Devices |-> IF d = "d2" THEN "ip1" ELSE NoIp],
            [d \in Devices |-> IF d = "d1" THEN "ip2" ELSE NoIp]},
     known \in {{}, Devices},
     held \in {{}, {<<"ip1", "d2">>}, {<<"ip1", "d1">>, <<"ip2", "d2">>}}}

Forms ==
  {[Before EXCEPT !.forms["wconfig"] = w, !.forms["wmacauth"] = Mac(m),
                  !.forms["dhcpserver"] = l, !.filters = f] :
     w \in {Before.forms["wconfig"],
            Wifi(AllWifi, {"box"}, "open", "default", "on"),
            Wifi(AllWifi, {}, "wpa", "default", "on"),
            Wifi({"security", "key"}, {}, "open", "default", "on"),
            Wifi(AllWifi, {"box"}, "open", "secret", "off")},
     m \in {"none", "allow"}, l \in {Lan("lan1", "hour"), Lan("lan0", "day")},
     f \in {{}, {"m1", "m2"}}}

FormStarts ==
  {Start(Job(d, {"wconfig", "wmacauth", "dhcpserver"}, FALSE), g, {}) :
     d \in {Dump, NoOptional, Literal}, g \in Forms}
  \cup {Start(Job(NoOptional, {"dhcpserver"}, FALSE), Before, {})}

AllStarts ==
  {Start(Job(Dump, {"services", "apphosting", "ipalloc", "packetfilter"} \cup FormPages, TRUE),
         [Before EXCEPT !.services = <<>>, !.forwards = <<>>,
                        !.fixed = [d \in Devices |-> NoIp],
                        !.forms["wconfig"] = Wifi(AllWifi, {"box"}, "open", "default", "on"),
                        !.forms["dhcpserver"] = Lan("lan0", "day")],
         {<<"ip1", "d2">>})}

MCStarts == TableStarts \cup ReservationStarts \cup FormStarts \cup AllStarts
=============================================================================
