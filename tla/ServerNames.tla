---------------------------- MODULE ServerNames ----------------------------
(***************************************************************************)
(* The names in the server's certificate (bumper/utils/certs.py), and those *)
(* that scripts/clean-domains.py prints for certificates made by hand.      *)
(* A domain is the sequence of its labels.                                  *)
(***************************************************************************)
EXTENDS Sequences, Naturals

Below(labels, domain) == {<<l>> \o domain : l \in labels}

\* RAW_DOMAINS: what robots and apps of Ecovacs talk to.
RawDomains ==
  LET user == <<"ecouser", "net">>
      cn   == <<"cn">> \o user
      ww   == <<"ww">> \o user
      vacs == <<"ecovacs", "com">>
      ali  == <<"aliyun", "com">>
      alis == <<"aliyuncs", "com">>
      parts == {"app", "base", "cloud", "ngiot", "rapp", "rop"}
  IN
  {<<"a1zYhiMF5J3", "iot-as-mqtt", "cn-shanghai">> \o alis, <<"mpush-api">> \o ali,
   <<"sdk", "openaccount">> \o ali, <<"api", "link">> \o ali,
   <<"itls", "eu-central-1">> \o alis, <<"eu-central-1">> \o alis}
  \cup Below({"ca", "area"}, <<"robotww">> \o user)
  \cup Below({"ca", "dc", "area"}, <<"robotcn">> \o user)
  \cup {vacs, <<"www", "eml">> \o vacs, user, cn, ww,
        <<"dc-cn", "bizcn">> \o user, <<"dc-hq", "devhq">> \o user,
        <<"jmq-ngiot-eu", "dc", "robotww">> \o user,
        <<"cloud-ui", "dc-cn", "cloud">> \o cn, <<"cn", "dc">> \o cn, <<"api-app">> \o ww,
        <<"codepush-base", "dc-na">> \o ww}
  \cup Below({"autodiscover", "cfjump", "checkout-au", "checkout-test", "checkout-uk",
              "comingsoon", "czjquw", "eml", "exchange", "gl-de-api", "gl-de-openapi",
              "gl-us-pub", "mail", "parts-apac", "qdbdrg", "recommender", "sa-eu-datasink",
              "site-static", "store-de", "store-fr", "storehk", "store-it", "store-jp",
              "storesg", "store-uk", "usshop", "vpn"}, vacs)
  \cup Below({"robotcn", "dc", "dev", "dl", "lb", "lbo", "msg-eu", "portal-ww",
              "portal-ww-qa1", "portal-ww-qa", "www"}, user)
  \cup Below({"dc-as", "dc-eu", "dc-na"}, <<"bizww">> \o user)
  \cup UNION {Below({"dc-cn"}, <<p>> \o cn) : p \in parts}
  \cup Below({"area", "dc-cn", "dc", "dc-hq"}, cn)
  \cup UNION {Below({"dc-as", "dc-eu", "dc-na"}, <<p>> \o ww) : p \in parts}
  \cup {<<"cloud-ui", d, "cloud">> \o ww : d \in {"dc-as", "dc-eu", "dc-na"}}
  \cup Below({"as", "eu", "na"}, <<"dc">> \o ww)
  \cup Below({"area", "dc-as", "dc-aus", "dc", "dc-eu", "dc-na"}, ww)
  \cup Below({"api-app", "api-base", "api-ngiot", "eis-nlp", "users-base"}, <<"dc-eu">> \o ww)

\* _build_domain_tree(): a node is named by its path; a root has two labels.
Nodes(domains) ==
  UNION {{SubSeq(d, i, Len(d)) : i \in 1 .. Len(d) - 1} : d \in {e \in domains : Len(e) >= 2}}

Roots(domains) == {n \in Nodes(domains) : Len(n) = 2}

\* Faulty: a wildcard for the nodes that have children only.
InnerWildcards(domains) ==
  {<<"*">> \o n : n \in {m \in Nodes(domains) : Len(m) > 2 /\ \E k \in Nodes(domains) : Tail(k) = m}}

\* _generate_wildcards(): one for every node, inner or leaf.
Wildcards(domains) == {<<"*">> \o n : n \in Nodes(domains)}

\* _build_san_list() without localhost and 127.0.0.1.
SanList(domains) == Roots(domains) \cup Wildcards(domains)

\* The script has a copy of the list and walks the tree down from the roots.
ScriptDomains == RawDomains

Named(nodes) ==
  LET children(n) == {k \in nodes : Tail(k) = n}
      named[n \in nodes] == {<<"*">> \o n} \cup UNION {named[k] : k \in children(n)}
  IN  named

ScriptNames(domains) ==
  UNION {{r} \cup Named(Nodes(domains))[r] : r \in Roots(domains)}

\* A wildcard stands for exactly one label.
Covers(name, domain) ==
  \/ name = domain
  \/ name[1] = "*" /\ Len(name) = Len(domain) /\ Tail(name) = Tail(domain)
=============================================================================
