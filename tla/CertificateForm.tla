----------------------------- MODULE CertificateForm -----------------------------
(* CertificateForm: a certificate to sign with the local CA or to import.    *)
(* Each kind has inputs of its own, and those of the other kind keep what    *)
(* was typed while they are hidden. The five parts of the subject are one.   *)
EXTENDS FormVisit

NewCertificate ==
  [mode |-> "local_ca", domain |-> "", days |-> "", subject |-> "",
   certPem |-> "", keyPem |-> ""]

OpenCertificateForm ==
  /\ page.name = "certificate form" /\ ~page.show
  /\ OpensDraft(None, NewCertificate)

(* The inputs, filled in or changed in any order.                            *)
EditCertificate ==
  /\ MayEdit("certificate form")
  /\ LET draft == page.draft
     IN \/ \E mode \in {"local_ca", "imported"}, domain \in {" a ", "x"} :
             EditsTo([draft EXCEPT !.mode = mode, !.domain = domain])
        \/ draft.mode = "local_ca" /\
             \E days \in {"0", "30"}, subject \in {"", " a "} :
               EditsTo([draft EXCEPT !.days = days, !.subject = subject])
        \/ draft.mode = "imported" /\
             \E cert, key \in {"", " a "} :
               EditsTo([draft EXCEPT !.certPem = cert, !.keyPem = key])

CancelCertificate == page.name = "certificate form" /\ CancelForm

(* handleSubmit: the domain must look like one, and an import needs both     *)
(* its parts.                                                                *)
ChecksCertificate(draft) ==
  /\ draft.domain \notin {"", "x"}
  /\ draft.mode = "imported" =>
       Trimmed(draft.certPem) # "" /\ Trimmed(draft.keyPem) # ""

Filled(fields) == Restrict(fields, {f \in DOMAIN fields : fields[f] # ""})

CertificatePayload(draft) ==
  Filled(IF draft.mode = "imported"
         THEN [mode |-> "imported", domain |-> Trimmed(draft.domain),
               certPem |-> Trimmed(draft.certPem),
               keyPem |-> Trimmed(draft.keyPem)]
         ELSE [domain |-> Trimmed(draft.domain),
               days |-> IF draft.days = "30" THEN "30" ELSE "",
               subject |-> Trimmed(draft.subject)])

SubmitCertificateForm ==
  /\ page.name = "certificate form" /\ MaySend
  /\ ChecksCertificate(page.draft)
  /\ Sends("save", CertificatePayload(page.draft))

(* POST /certificates: an import where the source (mode) says so, else the   *)
(* local CA signs, for its own number of days if none is named. There is one *)
(* certificate per domain.                                                   *)
SavedCertificates(c) ==
  LET has == DOMAIN c.payload
      row == [f \in DOMAIN NewCertificate |->
                IF f \in has THEN c.payload[f] ELSE NewCertificate[f]]
  IN IF server.row = None THEN {row} ELSE {}

(* What the form showed, of the kind it was submitted as.                    *)
CertificateShown(c, f) ==
  CASE f = "days" -> IF c.draft.days = "30" THEN "30" ELSE ""
    [] OTHER     -> Trimmed(c.draft[f])
CertificateFieldsShown(c) ==
  {"mode", "domain"} \cup
    IF c.draft.mode = "imported" THEN {"certPem", "keyPem"}
    ELSE {"days", "subject"}

CertificateClick ==
  OpenCertificateForm \/ EditCertificate \/ CancelCertificate
  \/ SubmitCertificateForm

CertificateFormAnswered(c) == SaveAnswered(c, "certificate form")
=============================================================================
