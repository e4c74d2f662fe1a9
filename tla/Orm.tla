-------------------------------- MODULE Orm --------------------------------
(***************************************************************************)
(* The sessions of backend/app/db/database.py, as far as the other modules *)
(* depend on them: autoflush=False, expire_on_commit=False.  A session     *)
(* works on the values it loaded last; its commit is one UPDATE that sets  *)
(* the columns whose new value differs from the loaded one, so a column it *)
(* did not change keeps what others have written meanwhile.                *)
(***************************************************************************)

(* One column of such an UPDATE. *)
Write(new, loaded, current) == IF new = loaded THEN current ELSE new
=============================================================================
