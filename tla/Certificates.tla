------------------------------ MODULE Certificates ------------------------------
(***************************************************************************)
(* Which certificate a TLS handshake gets (internal/config/manager.go): the   *)
(* certificates of a document are loaded into one table by name, and the name *)
(* a client asks for is looked up in it.                                      *)
(*                                                                         *)
(* A document has "certificates", a sequence of [domain, cert], and           *)
(* "sslCertificates", a sequence of [domains, cert]; blank names among the    *)
(* domains of the latter are left out, as the code skips them.                *)
(***************************************************************************)
EXTENDS Routing

CONSTANTS
    Certs,          \* what the entries of a document may hold as certificate and key
    Pairs,          \* those that are well formed
    WildcardOf      \* of a host, the wildcard in place of its first label

ASSUME CertificatesAssumption ==
    /\ WildcardOf \in [Hosts -> Wildcards \cup {None}]
    /\ Pairs \subseteq Certs
    /\ None \notin Pairs

NoCertificates == [certificates |-> <<>>, sslCertificates |-> <<>>]

(* loadCertificates refuses a pair that does not parse, and a legacy entry         *)
(* without a domain; a managed one without content is metadata and is skipped.     *)
Loadable(doc) ==
    /\ \A i \in DOMAIN doc.certificates :
          doc.certificates[i].domain # None /\ doc.certificates[i].cert \in Pairs
    /\ \A i \in DOMAIN doc.sslCertificates : doc.sslCertificates[i].cert \in Pairs \cup {None}

Legacy(doc) ==
    [i \in DOMAIN doc.certificates |->
       [domains |-> {doc.certificates[i].domain}, cert |-> doc.certificates[i].cert]]

(* One without content is registered under no name. *)
Managed(doc) ==
    [i \in DOMAIN doc.sslCertificates |->
       LET item == doc.sslCertificates[i] IN
       [domains |-> IF item.cert = None THEN {} ELSE item.domains, cert |-> item.cert]]

(* As LoadOrder, but legacy entries come last.                                   *)
LoadOrderLegacyLast(doc) == Managed(doc) \o Legacy(doc)

(* What is loaded later overrides what was loaded before.                         *)
LoadOrder(doc) == Legacy(doc) \o Managed(doc)

Register(table, item) ==
    [d \in item.domains \cup DOMAIN table |-> IF d \in item.domains THEN item.cert ELSE table[d]]

CertificateTable(doc) ==
    LET order == LoadOrder(doc)
        table[n \in 0..Len(order)] ==
            IF n = 0 THEN [d \in {} |-> None] ELSE Register(table[n - 1], order[n])
    IN  table[Len(order)]

(* The first certificate of the document; none if that is metadata, whatever       *)
(* follows it.                                                                   *)
DefaultCert(doc) ==
    IF doc.certificates # <<>> THEN doc.certificates[1].cert
    ELSE IF doc.sslCertificates # <<>> THEN doc.sslCertificates[1].cert
    ELSE None

GetCertificate(doc, host) ==
    LET table == CertificateTable(doc) IN
    IF host \in DOMAIN table THEN table[host]
    ELSE IF WildcardOf[host] \in DOMAIN table THEN table[WildcardOf[host]]
    ELSE DefaultCert(doc)
=============================================================================
