--------------------------- MODULE MCCertRenewal ---------------------------
(* Instances of CertRenewal for TLC and its refinement of CertRotation.    *)
EXTENDS CertRenewal

\* The pair of certificate and key as one thing: torn when they do not match.
Pair(cert, key) == IF cert # None /\ cert.key = key THEN cert ELSE None

\* Before the first connection the pair in use is the stored one.
InUse ==
  IF certificate = None THEN Pair(nvsCertificate, nvsPrivateKey)
                        ELSE Pair(certificate, privateKey)

Rotation == INSTANCE CertRotation WITH
  Certs <- Certificates, First <- FirstCertificate, Torn <- None,
  live <- active, inUse <- InUse, stored <- Pair(nvsCertificate, nvsPrivateKey)

\* The renewal rotates certificates the way CertRotation promises.
RotatesSafely == Rotation!Spec
=============================================================================
