------------------------ MODULE MCApplicationSession ------------------------
(* The instance TLC checks: an allow-list of all four scenarios.  *)
EXTENDS ApplicationSession

MCAllowList == <<"repeated_failed_login", "malformed_payload_probe",
                 "invalid_resource_probe", "rapid_endpoint_switching">>
=============================================================================
