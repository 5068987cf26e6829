------------------------------ MODULE MCLibrary ------------------------------
(***************************************************************************)
(* The two libraries for TLC.  Their parts share nothing, so a behaviour   *)
(* is one of a single part, chosen at the start; the rest stays as it is.  *)
(***************************************************************************)
EXTENDS Pool, Sockets, LineReader, Netstring, SocketOptions, Lookup, Datagrams,
        Addresses, Cthreads

VARIABLE part

Parts == {"pool", "sockets", "line", "netstring", "options", "lookup",
          "datagrams", "addresses", "threads"}

\* Pool: sockets to read from, which may break in a way no event has a word for.
AskIn == {{"in"}}
ReadyOrBroken == {{}, {"in", "hup"}, {"nval"}}
SomePollTimeouts == {-16, -1, 8}

\* Sockets: a name with one address, and one whose first address is elsewhere.
Names == {<<"away", "here">>}

\* Netstring: payloads that look like framing, one of 12 bytes whose digits add
\* up to 3 and whose bytes, read as a header, are too long for one.
Twelve == <<1, 2, 1, Colon, Other, Other, Other, Other, Other, Other, Other, Comma>>
SmallPayloads == {<<>>, <<Comma>>, <<1, Colon>>, <<Colon, Comma, 2>>, Twelve}

\* SocketOptions: with milliseconds below zero, and not whole ticks.
Ip4(host) == [family |-> "ip4", host |-> host, port |-> 7]
Ip6(host) == [family |-> "ip6", host |-> host, port |-> 7]
MulticastGroups == {NullAddress, Ip4("group"), Ip6("group")}
LocalAddresses == {NullAddress, Ip4("me"), Ip6("me")}
SomeTimeouts == {-1500, -1000, 1999}

\* Lookup
SomeRecords == {<<>>, <<"AF_INET6">>, <<"AF_INET6", "AF_INET">>, <<"AF_INET", "AF_INET">>}
SomeAdapters == {<<"AF_PACKET", "AF_INET">>, <<"AF_INET", "AF_INET6", "AF_INET">>,
                 <<"AF_INET", "AF_INET", "AF_INET">>}

\* Datagrams
SomeChunks == {<<>>, <<2, 3>>}
SomeDestinations == {NullAddress, Ip4("peer"), Ip6("peer")}

\* Addresses: bytes are below 3, ports below 4.
SomeNumbers == {-1, 0, 2, 4}

LibraryInit ==
  /\ part \in Parts
  /\ Init /\ (part # "pool" => condition = [s \in PoolSockets |-> {}])
  /\ LookupInit
  /\ part # "lookup" => records = <<>> /\ adapters = <<"AF_PACKET", "AF_INET">>
  /\ AddressesInit /\ (part # "addresses" => text = Text(<<0>>, NoPort))
  /\ SocketsInit /\ LineInit /\ NetInit /\ OptionsInit /\ DatagramsInit /\ ThreadsInit

Only(p) == part = p /\ UNCHANGED part

LibraryNext ==
  \/ /\ Only("pool") /\ Next
     /\ UNCHANGED <<socketVars, lineVars, netVars, optionVars, lookupVars, datagramVars, addressVars, threadVars>>
  \/ /\ Only("sockets") /\ SocketsNext
     /\ UNCHANGED <<vars, lineVars, netVars, optionVars, lookupVars, datagramVars, addressVars, threadVars>>
  \/ /\ Only("line") /\ LineNext
     /\ UNCHANGED <<vars, socketVars, netVars, optionVars, lookupVars, datagramVars, addressVars, threadVars>>
  \/ /\ Only("netstring") /\ NetNext
     /\ UNCHANGED <<vars, socketVars, lineVars, optionVars, lookupVars, datagramVars, addressVars, threadVars>>
  \/ /\ Only("options") /\ OptionsNext
     /\ UNCHANGED <<vars, socketVars, lineVars, netVars, lookupVars, datagramVars, addressVars, threadVars>>
  \/ /\ Only("lookup") /\ LookupNext
     /\ UNCHANGED <<vars, socketVars, lineVars, netVars, optionVars, datagramVars, addressVars, threadVars>>
  \/ /\ Only("datagrams") /\ DatagramsNext
     /\ UNCHANGED <<vars, socketVars, lineVars, netVars, optionVars, lookupVars, addressVars, threadVars>>
  \/ /\ Only("addresses") /\ AddressesNext
     /\ UNCHANGED <<vars, socketVars, lineVars, netVars, optionVars, lookupVars, datagramVars, threadVars>>
  \/ /\ Only("threads") /\ ThreadsNext
     /\ UNCHANGED <<vars, socketVars, lineVars, netVars, optionVars, lookupVars, datagramVars, addressVars>>

LibrarySpec == LibraryInit /\ [][LibraryNext]_<<part, vars, socketVars, lineVars, netVars,
  optionVars, lookupVars, datagramVars, addressVars, threadVars>>
=============================================================================
