--------------------------- MODULE MCSftpManager ----------------------------
(***************************************************************************)
(* Instances of SftpManager for TLC: versions of the template of half a    *)
(* buffer, one and one and a half (sftp), none, one and two and a half     *)
(* (sftp_lossy), or no template.                                           *)
(***************************************************************************)
EXTENDS SftpManager

CONSTANTS p1, p2, n1

NoFile == -1
=============================================================================
