---------------------------- MODULE MCSshTunnel -----------------------------
EXTENDS SshTunnel

CONSTANTS s1, s2, s3

ThreeSockets == {s1, s2, s3}
=============================================================================
