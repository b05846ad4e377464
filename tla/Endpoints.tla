------------------------------- MODULE Endpoints -------------------------------
(***************************************************************************)
(* The addresses of the settings: ParseDaemonAddr of the reranker          *)
(* (mozc_compat/rerank_rewriter.cc), ParseEndpoint of OllamaBackend and    *)
(* ParseApiEndpoint of OpenAICompatibleBackend (src/ai).                   *)
(*                                                                         *)
(* A symbol is a character, but "http://" and "https://" are one each, "h" *)
(* is any other, and the digits are "0" and "1"; MaxPort stands for 65535. *)
(***************************************************************************)
EXTENDS Texts

PortDigits == {"0", "1"}
MaxPort == 10
Port(digits) ==
  LET upto[i \in 0..Len(digits)] ==
        IF i = 0 THEN 0
        ELSE 10 * upto[i - 1] + (IF digits[i] = "1" THEN 1 ELSE 0)
  IN upto[Len(digits)]

Bad == [ok |-> FALSE]

(* absl::SimpleAtoi takes the whole of a text or nothing.                  *)
ParseDaemonAddr(addr) ==
  LET colons == {i \in DOMAIN addr : addr[i] = ":"}
      colon == Max(colons)
      port == From(addr, colon + 1)
  IN IF colons = {} \/ colon = 1 \/ colon = Len(addr) THEN Bad
     ELSE IF ~(\A i \in DOMAIN port : port[i] \in PortDigits)
             \/ Port(port) \notin 1..MaxPort THEN Bad
     ELSE [ok |-> TRUE, host |-> SubSeq(addr, 1, colon - 1), port |-> Port(port)]

(* std::stoi takes the digits in front; without any it throws.             *)
Stoi(text) == LET end == PastAll(text, 1, PortDigits) IN SubSeq(text, 1, end - 1)

Scheme == {"http://", "https://"}
WithoutScheme(url) == IF At(url, 1) \in Scheme THEN From(url, 2) ELSE url

(* The port is behind the first colon, even one behind the slash.          *)
ParseEndpoint(endpoint) ==
  LET url == WithoutScheme(endpoint)
      colon == FirstOf(url, 1, {":"})
      slash == FirstOf(url, 1, {"/"})
      port == Stoi(SubSeq(url, colon + 1, IF slash < colon THEN Len(url) ELSE slash - 1))
  IN IF colon > Len(url)
     THEN [ok |-> TRUE, host |-> SubSeq(url, 1, slash - 1), port |-> 11434]
     ELSE IF port = <<>> THEN Bad
     ELSE [ok |-> TRUE, host |-> SubSeq(url, 1, colon - 1), port |-> Port(port)]

(* What Initialize makes of it.                                            *)
OllamaServer(endpoint) ==
  LET parsed == ParseEndpoint(endpoint)
  IN IF parsed.ok THEN parsed
     ELSE [ok |-> TRUE, host |-> <<"localhost">>, port |-> 11434]

ParseApiEndpoint(endpoint) ==
  LET url == WithoutScheme(endpoint)
      slash == FirstOf(url, 1, {"/"})
      hostport == SubSeq(url, 1, slash - 1)
      colon == FirstOf(hostport, 1, {":"})
      port == Stoi(From(hostport, colon + 1))
      plain == At(endpoint, 1) = "http://"
      path == IF url # <<>> /\ url[Len(url)] = "/"
              THEN SubSeq(url, slash, Len(url) - 1) ELSE From(url, slash)
  IN IF colon = 1 \/ hostport = <<>> \/ (colon <= Len(hostport) /\ port = <<>>) THEN Bad
     ELSE [ok |-> TRUE, host |-> SubSeq(hostport, 1, colon - 1),
           port |-> IF colon <= Len(hostport) THEN Port(port)
                    ELSE IF plain THEN 80 ELSE 443,
           ssl |-> ~plain,
           path |-> (IF slash > Len(url) THEN <<"v1">> ELSE path) \o <<"chat">>]

--------------------------------------------------------------------------------
(* A URL put together of a scheme, a host, a port and a path (each may be  *)
(* missing but the host) is taken apart into the same, with a default for  *)
(* what is missing; an address of the daemon that is taken is the host, a  *)
(* colon and a port.                                                       *)
Url(scheme, host, port, path) ==
  scheme \o host \o (IF port = <<>> THEN <<>> ELSE <<":">> \o port) \o path

Schemes == {<<>>} \cup {<<s>> : s \in Scheme}
Hosts == {<<"h">>, <<"h", "h">>}
Ports == {<<>>, <<"1">>, <<"1", "0">>}
Paths == {<<>>, <<"/">>, <<"/", "h">>, <<"/", "h", ":">>, <<"/", "h", "/">>}

AddressComesApart(s) ==
  /\ LET addr == ParseDaemonAddr(s)
     IN addr.ok => \E port \in DOMAIN s :
          /\ s = addr.host \o <<":">> \o From(s, port) /\ addr.host # <<>>
          /\ Port(From(s, port)) = addr.port
  /\ \A scheme \in Schemes, host \in Hosts, port \in Ports, path \in Paths :
       s = Url(scheme, host, port, path) =>
         LET api == ParseApiEndpoint(s)
             ollama == OllamaServer(s)
         IN /\ api.ok /\ api.host = host
            /\ api.ssl = (scheme # <<"http://">>)
            /\ port # <<>> => api.port = Port(port)
            /\ (port # <<>> \/ \A i \in DOMAIN path : path[i] # ":") =>
                 /\ ollama.host = host
                 /\ ollama.port = IF port = <<>> THEN 11434 ELSE Port(port)
================================================================================
