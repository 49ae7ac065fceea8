------------------------------- MODULE GenCert --------------------------------
(***************************************************************************)
(* iotc_x509_generate_credentials(), src/source/iotc_gencert.c: a key and  *)
(* a certificate that it signs, each written as PEM to a buffer of the     *)
(* application.  Mbed TLS is external: each of its calls that returns a    *)
(* status may fail, and a context holds memory until it is freed.          *)
(***************************************************************************)
EXTENDS Threads

VARIABLES contexts,  \* the contexts of Mbed TLS that are in use
          genOk,     \* ret is 0
          pems       \* the buffers that have been written

genVars == <<contexts, genOk, pems>>

GenInit == contexts = {} /\ genOk = TRUE /\ pems = {}

\* A call of Mbed TLS: it succeeds, or control goes to where failures go.
Attempt(at, next, failed) == \/ AppGoto(at, next) /\ genOk' = TRUE
                             \/ AppGoto(at, failed) /\ genOk' = FALSE

-----------------------------------------------------------------------------
(* make_key()                                                              *)

\* The key itself is allocated by mbedtls_pk_setup().
KeySetup ==
    /\ Attempt("gen.setup", "gen.seed", "gen.keyexit")
    /\ contexts' = {"entropy", "drbg"} \union (IF genOk' THEN {"key"} ELSE {})
    /\ UNCHANGED pems

\* mbedtls_ctr_drbg_seed() and mbedtls_ecp_gen_key()
KeyGenerate ==
    /\ \/ Attempt("gen.seed", "gen.generate", "gen.keyexit")
       \/ Attempt("gen.generate", "gen.keypem", "gen.keyexit")
    /\ UNCHANGED <<contexts, pems>>

\* mbedtls_pk_write_key_pem()
KeyWrite ==
    /\ Attempt("gen.keypem", "gen.keyexit", "gen.keyexit")
    /\ pems' = IF genOk' THEN {"key"} ELSE pems
    /\ UNCHANGED contexts

\* Mutant of KeyExit: the status of make_key() is not looked at.
KeyExitUnchecked ==
    /\ AppGoto("gen.keyexit", "gen.fill")
    /\ contexts' = contexts \ {"entropy", "drbg"}
    /\ UNCHANGED <<genOk, pems>>

\* The label exit, and the test of ret in the caller.
KeyExit ==
    /\ \/ ~genOk /\ AppGoto("gen.keyexit", "gen.done")
       \/ genOk /\ AppGoto("gen.keyexit", "gen.fill")
    /\ contexts' = contexts \ {"entropy", "drbg"}
    /\ UNCHANGED <<genOk, pems>>

-----------------------------------------------------------------------------
(* generate_selfsigned_cert()                                              *)

\* Names, serial number, validity and constraints, each of which may fail.
CertFill == /\ Attempt("gen.fill", "gen.certpem", "gen.certexit")
            /\ contexts' = contexts \union {"serial", "drbg", "crt"}
            /\ UNCHANGED pems

\* mbedtls_x509write_crt_pem() signs and writes.
CertWrite ==
    /\ Attempt("gen.certpem", "gen.certexit", "gen.certexit")
    /\ pems' = IF genOk' THEN pems \union {"cert"} ELSE pems
    /\ UNCHANGED contexts

\* The label exit.
CertExit == /\ AppGoto("gen.certexit", "gen.done")
            /\ contexts' = contexts \ {"serial", "drbg", "crt"}
            /\ UNCHANGED <<genOk, pems>>

-----------------------------------------------------------------------------
(* iotc_x509_generate_credentials()                                        *)

GenCall(at) == AppGoto(at, "gen.setup") /\ UNCHANGED genVars

\* The function has returned.  What it left is counted up to here.
GenReturn(to) == /\ AppGoto("gen.done", to)
                 /\ contexts' = {} /\ genOk' = TRUE /\ pems' = {}

GenStep == \/ KeySetup \/ KeyGenerate \/ KeyWrite \/ KeyExit
           \/ CertFill \/ CertWrite \/ CertExit

-----------------------------------------------------------------------------

GenPoints == {"gen.setup", "gen.seed", "gen.generate", "gen.keypem",
              "gen.keyexit", "gen.fill", "gen.certpem", "gen.certexit",
              "gen.done"}

\* Every variable has its type.
TypeOK == /\ contexts \subseteq {"key", "entropy", "drbg", "serial", "crt"}
          /\ genOk \in BOOLEAN
          /\ pems \subseteq {"key", "cert"}

\* Whichever call fails: a certificate is signed with a key that exists and
\* whose PEM is written; the function returns 0 only with both buffers
\* written; and nothing of its own is left but the key, which is never freed.
CredentialsAccounted ==
    /\ app \in {"gen.fill", "gen.certpem"} => "key" \in contexts \intersect pems
    /\ app = "gen.done" => /\ contexts \subseteq {"key"}
                           /\ genOk => pems = {"key", "cert"} /\ contexts = {"key"}
=============================================================================
