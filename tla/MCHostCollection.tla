-------------------------- MODULE MCHostCollection --------------------------
(* Four products and the credentials of a small office.                      *)
EXTENDS HostCollection

Key(name, kind, opens) == [name |-> name, kind |-> kind, opens |-> opens]
oldRoot == Key(1, "ssh-password", TRUE)
deploy == Key(2, "ssh-key", TRUE)
lost == Key(0, "ssh-key", FALSE)
public == Key(3, "snmp-v2c", TRUE)
admin == Key(4, "wmi", TRUE)
remote == Key(5, "winrm", TRUE)
token == Key(6, "fortigate-token", TRUE)
MCCredentials == {oldRoot, deploy, lost, public, admin, remote, token}

Box(ports, speaks, admits, has) ==
  [ports |-> ports, speaks |-> speaks, admits |-> admits, darwin |-> FALSE, has |-> has]
server == Box({22}, {"ssh", "snmp"}, {deploy, public}, {"ifaces", "software"})
laptop == Box({135}, {"wmi", "winrm"}, {remote, admin}, {"serial", "software"})
gateway == Box({49000}, {"fritzbox"}, {}, {"os", "ifaces"})
firewall == Box({22, 443}, {"ssh", "fortigate"}, {token}, {"serial", "ifaces"})
MCMachines == {server, laptop, gateway, firewall}
=============================================================================
