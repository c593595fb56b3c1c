--------------------------- MODULE CertificatesPage ---------------------------
(* The handlers of CertificatesPage and of the submission of CertificateForm.*)
(* Certificates are not edited; an active one is signed again on request.    *)
EXTENDS Directory

FetchCertificates(p) ==
  [p EXCEPT !.gen = @ + 1, !.available = TRUE, !.error = FALSE]

CertificatesListed(c) ==
  LET after == Loaded(page, c)
      shown == IF ~Newest(c) THEN page
               ELSE IF Ok(c) THEN Shows(after, c.rows)
               ELSE [Shows(after, NoRows) EXCEPT !.available = FALSE,
                                                 !.error = TRUE]
  IN Answered(c, "certificates", "list") /\ Resumes(c, Settled(shown, c.n), {})

CertificatesRefresh(c, p) ==
  LET q == FetchCertificates(p) IN Resumes(c, q, {ListCall(q, c)})

ProvisionCertificate ==
  /\ page.name = "certificates" /\ MayAct /\ page.available
  /\ Handles(OpensForm(page, None), {})

CloseCertificateForm ==
  page.name = "certificates" /\ page.show /\ Handles(ShutsForm(page), {})

SubmitCertificate ==
  page.name = "certificates" /\ MaySubmit /\ Submits("create")

CertificateCreated(c) ==
  /\ Answered(c, "certificates", "create")
  /\ IF Ok(c) THEN CertificatesRefresh(c, ShutsForm(page))
     ELSE Resumes(c, SubmitFailed(page, c.n), {})

DeleteCertificate ==
  page.name = "certificates" /\ \E r \in Rows : TableDelete(r)

CertificateDeleted(c) ==
  /\ Answered(c, "certificates", "delete")
  /\ IF Ok(c) THEN CertificatesRefresh(c, page)
     ELSE Resumes(c, [Settled(page, c.n) EXCEPT !.error = TRUE], {})

(* The page remembers what it is signing, whatever becomes of the table.     *)
Resignable(r) == r \notin Busy(page.resigning)

ResignCertificate ==
  LET n == page.acts + 1
  IN /\ page.name = "certificates" /\ MayAct /\ page.acts < MaxActs
     /\ \E r \in Shown(page) :
          /\ Resignable(r)
          /\ Handles([page EXCEPT !.acts = n, !.resigning = @ \cup {<<r, n>>}],
                     {Call("resign", n, r)})

CertificateResigned(c) ==
  /\ Answered(c, "certificates", "resign")
  /\ IF Ok(c) THEN CertificatesRefresh(c, page)
     ELSE Resumes(c, [Settled(page, c.n) EXCEPT !.error = TRUE], {})

(* The mount effect, where the server manages certificates.                  *)
CertificatesMounted(can) == FetchCertificates(Page("certificates", can))

CertificatesClick ==
  \/ ProvisionCertificate \/ CloseCertificateForm \/ SubmitCertificate
  \/ DeleteCertificate \/ ResignCertificate

CertificatesAnswered(c) ==
  \/ CertificatesListed(c) \/ CertificateCreated(c) \/ CertificateDeleted(c)
  \/ CertificateResigned(c)
=============================================================================
