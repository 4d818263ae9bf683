SPECIFICATION Spec
CONSTANT RESENDCNT = 2
PROPERTY NoResendAfterReply
