------------------------------- MODULE Native -------------------------------
(***************************************************************************)
(* How tinycsocket.h (POSIX) converts between its own error codes and      *)
(* addresses and those of the system.  A name stands for an error code or  *)
(* a family; an address is a record of its family, host and port.          *)
(***************************************************************************)
EXTENDS Naturals

errno2retcode(error_code) ==
  CASE error_code = "ECONNREFUSED" -> "connection_refused"
    [] error_code = "EAGAIN" -> "timed_out"
    [] error_code = "EINVAL" -> "invalid_argument"
    [] error_code = "ENOMEM" -> "memory"
    [] OTHER -> "unknown"

\* Families of the library that have one of the system: what is stored is in
\* a table, with no entry beyond IPv6.
family2native(family) ==
  CASE family = "any" -> "AF_UNSPEC"
    [] family = "ip4" -> "AF_INET"
    [] family = "ip6" -> "AF_INET6"

NullAddress == [family |-> "null", host |-> "none", port |-> 0]

\* To the system: what it returns.
sockaddr2native(address) ==
  IF address = NullAddress THEN "invalid_argument"
  ELSE IF address.family = "ip4" THEN "success" ELSE "not_implemented"

\* From the system: what it returns.
native2sockaddr(address) ==
  CASE address.family = "AF_INET" -> "success"
    [] address.family \in {"null", "AF_UNSPEC"} -> "invalid_argument"
    [] OTHER -> "not_implemented"
=============================================================================
